---- MODULE Spec2Model ----
(***************************************************************************)
(* Model of the logion client: the LOC lifecycle seen through state         *)
(* objects (State / LocRequestState), the AuthenticatedLocClient methods    *)
(* that call the backend and the ledger, and the two collaborators          *)
(* themselves (one LOC, its metadata item and its file, and the items and    *)
(* tokens records of a collection).                                         *)
(***************************************************************************)
EXTENDS Integers, FiniteSets, Sequences, TLC

(* ------------------------------- bounds -------------------------------- *)
\* number of variables in which each actor's code keeps state objects
NumVars == 2
\* number of transition calls that may be suspended at the same time
MaxCalls == 2
\* number of distinct metadata values / file natures
NumValues == 2

(* ------------------------------ vocabulary ----------------------------- *)
Actors == {"requester", "legalOfficer"}
VarIds == 1..NumVars
LocTypes == {"Transaction", "Collection", "Identity"}
MetadataIds == {"m1"}
FileIds == {"f1"}
ItemIds == MetadataIds \cup FileIds
Values == 1..NumValues
CollectionItemIds == {"i1", "i2"}
RecordIds == {"r1"}
EntryIds == CollectionItemIds \cup RecordIds
\* content hashes of files, and file sizes in bytes
Hashes == {"h1", "h2"}
Sizes == {4, 5}
\* the size of the content that has the hash
ContentSize(hash) == IF hash = "h1" THEN 4 ELSE 5

\* ItemStatus, plus the absence of the item
ItemStatus == {"DRAFT", "REVIEW_PENDING", "REVIEW_ACCEPTED", "REVIEW_REJECTED",
               "PUBLISHED", "ACKNOWLEDGED"}
Absent == [st |-> "ABSENT", val |-> 0]

\* LocRequestStatus, plus "NONE" (no request yet) and "CANCELLED" (request gone)
LocRequestStatus == {"DRAFT", "REVIEW_PENDING", "REVIEW_REJECTED", "REVIEW_ACCEPTED",
                     "OPEN", "CLOSED"}

VARIABLES
    locType,   \* type of the LOC, chosen by the request
    backend,   \* the legal officer's backend record of the LOC (LocRequest)
    chain,     \* the ledger's record of the LOC (LegalOfficerCase)
    objs,      \* the state objects held by each actor's code, by variable
    last,      \* the call that ended last (what the caller observed)
    offchain,  \* the backend's collection items and tokens records
    onchain,   \* the ledger's collection items and tokens records
    lastAdd,   \* the addCollectionItem / addTokensRecord call that ended last
    chainFiles, \* the file the ledger holds for each item and record
    lastGet,   \* what the read of the collection that ended last returned
    requests,  \* the request fetchAll sent to each legal officer's endpoint
    multiResponse, \* the arrays the endpoints answered, as they arrived
    fetched,   \* the fetchAll call: pending, or what it returned
    nodeIssuers, \* the issuers the ledger holds as selected for the LOC
    selectedIssuers, \* the issuers of the backend's request, with identities
    lastIssuers, \* the getLocIssuers call that ended last
    itemFile,  \* an ItemFileWithContent object and what its caller saw last
    terms,     \* a terms-and-conditions element and what its caller saw last
    token,     \* the token validateToken was called with and what it returned
    invocation \* the client method that ended last: the calls it made, what it threw

vars == <<locType, backend, chain, objs, last, offchain, onchain, lastAdd, chainFiles, lastGet,
          requests, multiResponse, fetched, nodeIssuers, selectedIssuers, lastIssuers,
          itemFile, terms, token, invocation>>

locVars == <<locType, backend, chain, objs, last>>

collectionVars == <<offchain, onchain, lastAdd, chainFiles, lastGet>>

fetchVars == <<requests, multiResponse, fetched>>

issuerVars == <<nodeIssuers, selectedIssuers, lastIssuers>>

valueVars == <<itemFile, terms, token, invocation>>

queryVars == <<fetchVars, issuerVars, valueVars>>

(* ---------------------------- the backend ------------------------------ *)
NoItems == [i \in ItemIds |-> Absent]

NoBackend == [status |-> "NONE", void |-> FALSE, items |-> NoItems]

NoChain == [exists |-> FALSE, closed |-> FALSE, void |-> FALSE,
            items |-> {}, acked |-> {}]

\* statuses in which the backend lets items be added to and deleted from a request
Editable(b) == b.status \in {"DRAFT", "OPEN"} /\ ~b.void

SetAll(items, from, to) ==
    [i \in ItemIds |-> IF items[i].st = from THEN [items[i] EXCEPT !.st = to] ELSE items[i]]

\* can the backend serve the endpoint in its present state
BackendAccepts(b, ep, i, arg) ==
    CASE ep = "create"   -> b.status = "NONE"
      [] ep = "get"      -> b.status \notin {"NONE", "CANCELLED"}
      [] ep = "submit"   -> b.status = "DRAFT"
      [] ep = "reject"   -> b.status = "REVIEW_PENDING"
      [] ep = "accept"   -> b.status = "REVIEW_PENDING"
      [] ep = "open"     -> b.status = "REVIEW_ACCEPTED"
      [] ep = "rework"   -> b.status = "REVIEW_REJECTED"
      [] ep = "cancel"   -> b.status = "REVIEW_REJECTED"
      [] ep = "close"    -> b.status = "OPEN" /\ ~b.void
      [] ep = "void"     -> b.status \in {"OPEN", "CLOSED"} /\ ~b.void
      [] ep = "add"      -> Editable(b) /\ b.items[i].st = "ABSENT"
      [] ep = "delete"   -> Editable(b)
                            /\ b.items[i].st \in {"DRAFT", "REVIEW_PENDING",
                                                  "REVIEW_ACCEPTED", "REVIEW_REJECTED"}
      [] ep = "review-request" -> b.status = "OPEN" /\ ~b.void /\ b.items[i].st = "DRAFT"
      [] ep = "review"   -> b.status = "OPEN" /\ ~b.void /\ b.items[i].st = "REVIEW_PENDING"
      [] ep = "confirm"  -> b.status = "OPEN" /\ ~b.void /\ b.items[i].st = "REVIEW_ACCEPTED"
      [] ep = "confirm-acknowledged" ->
                            b.status = "OPEN" /\ ~b.void /\ b.items[i].st = "PUBLISHED"
      [] OTHER -> FALSE

\* a backend whose rework leaves the rejected items as they are
BackendApplyKeepingRejected(b, ep, i, arg) ==
    CASE ep = "create"   -> [b EXCEPT !.status = IF arg = 1 THEN "DRAFT" ELSE "REVIEW_PENDING"]
      [] ep = "submit"   -> [b EXCEPT !.status = "REVIEW_PENDING",
                                     !.items = SetAll(b.items, "DRAFT", "REVIEW_PENDING")]
      [] ep = "reject"   -> [b EXCEPT !.status = "REVIEW_REJECTED",
                                     !.items = SetAll(b.items, "REVIEW_PENDING", "REVIEW_REJECTED")]
      [] ep = "accept"   -> [b EXCEPT !.status = "REVIEW_ACCEPTED"]
      [] ep = "open"     -> [b EXCEPT !.status = "OPEN"]
      [] ep = "rework"   -> [b EXCEPT !.status = "DRAFT"]
      [] ep = "cancel"   -> [b EXCEPT !.status = "CANCELLED", !.items = NoItems]
      [] ep = "close"    -> [b EXCEPT !.status = "CLOSED"]
      [] ep = "void"     -> [b EXCEPT !.void = TRUE]
      [] ep = "add"      -> [b EXCEPT !.items[i] = [st |-> "DRAFT", val |-> arg]]
      [] ep = "delete"   -> [b EXCEPT !.items[i] = Absent]
      [] ep = "review-request" -> [b EXCEPT !.items[i].st = "REVIEW_PENDING"]
      [] ep = "review"   -> [b EXCEPT !.items[i].st =
                                 IF arg = 1 THEN "REVIEW_ACCEPTED" ELSE "REVIEW_REJECTED"]
      [] ep = "confirm"  -> [b EXCEPT !.items[i].st = "PUBLISHED"]
      [] ep = "confirm-acknowledged" -> [b EXCEPT !.items[i].st = "ACKNOWLEDGED"]
      [] OTHER -> b

\* the backend record after it served the endpoint
BackendApply(b, ep, i, arg) ==
    CASE ep = "create"   -> [b EXCEPT !.status = IF arg = 1 THEN "DRAFT" ELSE "REVIEW_PENDING"]
      [] ep = "submit"   -> [b EXCEPT !.status = "REVIEW_PENDING",
                                     !.items = SetAll(b.items, "DRAFT", "REVIEW_PENDING")]
      [] ep = "reject"   -> [b EXCEPT !.status = "REVIEW_REJECTED",
                                     !.items = SetAll(b.items, "REVIEW_PENDING", "REVIEW_REJECTED")]
      [] ep = "accept"   -> [b EXCEPT !.status = "REVIEW_ACCEPTED"]
      [] ep = "open"     -> [b EXCEPT !.status = "OPEN"]
      [] ep = "rework"   -> [b EXCEPT !.status = "DRAFT",
                                     !.items = SetAll(b.items, "REVIEW_REJECTED", "DRAFT")]
      [] ep = "cancel"   -> [b EXCEPT !.status = "CANCELLED", !.items = NoItems]
      [] ep = "close"    -> [b EXCEPT !.status = "CLOSED"]
      [] ep = "void"     -> [b EXCEPT !.void = TRUE]
      [] ep = "add"      -> [b EXCEPT !.items[i] = [st |-> "DRAFT", val |-> arg]]
      [] ep = "delete"   -> [b EXCEPT !.items[i] = Absent]
      [] ep = "review-request" -> [b EXCEPT !.items[i].st = "REVIEW_PENDING"]
      [] ep = "review"   -> [b EXCEPT !.items[i].st =
                                 IF arg = 1 THEN "REVIEW_ACCEPTED" ELSE "REVIEW_REJECTED"]
      [] ep = "confirm"  -> [b EXCEPT !.items[i].st = "PUBLISHED"]
      [] ep = "confirm-acknowledged" -> [b EXCEPT !.items[i].st = "ACKNOWLEDGED"]
      [] OTHER -> b

\* an HTTP call whose failure goes unnoticed
HttpReportingOk(b, ep, i, arg, up) ==
    [ok |-> TRUE,
     b |-> IF up /\ BackendAccepts(b, ep, i, arg) THEN BackendApply(b, ep, i, arg) ELSE b]

\* one HTTP call: up tells whether the backend can be reached; a call the backend
\* cannot serve ends with a non-2xx response
Http(b, ep, i, arg, up) ==
    IF up /\ BackendAccepts(b, ep, i, arg)
    THEN [ok |-> TRUE, b |-> BackendApply(b, ep, i, arg)]
    ELSE [ok |-> FALSE, b |-> b]

(* ----------------------------- the ledger ------------------------------ *)
LedgerAccepts(c, tx, i) ==
    CASE tx = "createLoc"   -> ~c.exists
      [] tx = "close"       -> c.exists /\ ~c.closed /\ ~c.void
      [] tx = "makeVoid"    -> c.exists /\ ~c.void
      [] tx = "addItem"     -> c.exists /\ ~c.closed /\ ~c.void /\ i \notin c.items
      [] tx = "acknowledge" -> c.exists /\ ~c.void /\ i \in c.items /\ i \notin c.acked
      [] OTHER -> FALSE

LedgerApply(c, tx, i) ==
    CASE tx = "createLoc"   -> [c EXCEPT !.exists = TRUE]
      [] tx = "close"       -> [c EXCEPT !.closed = TRUE]
      [] tx = "makeVoid"    -> [c EXCEPT !.void = TRUE]
      [] tx = "addItem"     -> [c EXCEPT !.items = @ \cup {i}]
      [] tx = "acknowledge" -> [c EXCEPT !.acked = @ \cup {i}]
      [] OTHER -> c

\* signer.signAndSend: up tells whether the submission goes through
signAndSend(c, tx, i, up) ==
    IF up /\ LedgerAccepts(c, tx, i)
    THEN [ok |-> TRUE, c |-> LedgerApply(c, tx, i)]
    ELSE [ok |-> FALSE, c |-> c]

(* ------------------ AuthenticatedLocClient (LocClient.ts) --------------- *)
\* what a client method leaves behind: the collaborators' records and the
\* error it throws ("none", "backend" = BackendError, "ledger", "validation")
Res(b, c, err) == [b |-> b, c |-> c, err |-> err]

\* a method that makes one backend call and swallows its failure
BackendOnlySwallowing(b, c, ep, i, arg, up) ==
    Res(Http(b, ep, i, arg, up).b, c, "none")

\* a method that makes one backend call and wraps its failure (newBackendError)
BackendOnly(b, c, ep, i, arg, up) ==
    LET r == Http(b, ep, i, arg, up) IN
    IF r.ok THEN Res(r.b, c, "none") ELSE Res(b, c, "backend")

\* a method that submits to the ledger and then calls the backend
LedgerThenBackend(b, c, tx, ep, i, arg, up1, up2) ==
    LET s == signAndSend(c, tx, i, up1) IN
    IF ~s.ok THEN Res(b, c, "ledger")
    ELSE LET r == Http(b, ep, i, arg, up2) IN
         IF r.ok THEN Res(r.b, s.c, "none") ELSE Res(b, s.c, "backend")

createLocRequest(b, c, draft, up) == BackendOnly(b, c, "create", "none", draft, up)

getLocRequest(b, c, up) == BackendOnly(b, c, "get", "none", 0, up)

addMetadata(b, c, i, val, up) == BackendOnly(b, c, "add", i, val, up)

deleteMetadata(b, c, i, up) == BackendOnly(b, c, "delete", i, 0, up)

addFile(b, c, i, val, up) == BackendOnly(b, c, "add", i, val, up)

deleteFile(b, c, i, up) == BackendOnly(b, c, "delete", i, 0, up)

submit(b, c, up) == BackendOnly(b, c, "submit", "none", 0, up)

\* a cancel that posts to the endpoint of rework
cancelAsRework(b, c, up) == BackendOnly(b, c, "rework", "none", 0, up)

cancel(b, c, up) == BackendOnly(b, c, "cancel", "none", 0, up)

\* a rework that posts to the endpoint of cancel
reworkAsCancel(b, c, up) == BackendOnly(b, c, "cancel", "none", 0, up)

rework(b, c, up) == BackendOnly(b, c, "rework", "none", 0, up)

requestFileReview(b, c, i, up) == BackendOnly(b, c, "review-request", i, 0, up)

reviewFile(b, c, i, decision, up) == BackendOnly(b, c, "review", i, decision, up)

publishFile(b, c, i, up1, up2) ==
    LedgerThenBackend(b, c, "addItem", "confirm", i, 0, up1, up2)

\* an acknowledgeFile that posts to the endpoint of publishFile
acknowledgeFileAsConfirm(b, c, i, up1, up2) ==
    LedgerThenBackend(b, c, "acknowledge", "confirm", i, 0, up1, up2)

acknowledgeFile(b, c, i, up1, up2) ==
    LedgerThenBackend(b, c, "acknowledge", "confirm-acknowledged", i, 0, up1, up2)

requestMetadataReview(b, c, i, up) == BackendOnly(b, c, "review-request", i, 0, up)

reviewMetadata(b, c, i, decision, up) == BackendOnly(b, c, "review", i, decision, up)

publishMetadata(b, c, i, up1, up2) ==
    LedgerThenBackend(b, c, "addItem", "confirm", i, 0, up1, up2)

acknowledgeMetadata(b, c, i, up1, up2) ==
    LedgerThenBackend(b, c, "acknowledge", "confirm-acknowledged", i, 0, up1, up2)

rejectLoc(b, c, up) == BackendOnly(b, c, "reject", "none", 0, up)

acceptLoc(b, c, up) == BackendOnly(b, c, "accept", "none", 0, up)

openLoc(b, c, up) == BackendOnly(b, c, "open", "none", 0, up)

\* requester: "account" (requesterAccount given), "loc" (requesterLoc given), "none"
acceptTransactionLoc(b, c, requester, up1, up2) ==
    IF requester = "account" THEN acceptLoc(b, c, up2)
    ELSE IF requester = "loc"
         THEN LedgerThenBackend(b, c, "createLoc", "accept", "none", 0, up1, up2)
         ELSE Res(b, c, "validation")

openTransactionLoc(b, c, up1, up2) ==
    LedgerThenBackend(b, c, "createLoc", "open", "none", 0, up1, up2)

\* requester: "account" (a Polkadot requesterAccount), "other" (another account
\* type, with a sponsorship), "unsponsored" (another account type, without), "none"
acceptIdentityLoc(b, c, requester, up1, up2) ==
    CASE requester = "account" -> acceptLoc(b, c, up2)
      [] requester = "unsponsored" -> Res(b, c, "validation")
      [] OTHER -> LedgerThenBackend(b, c, "createLoc", "accept", "none", 0, up1, up2)

openIdentityLoc(b, c, up1, up2) ==
    LedgerThenBackend(b, c, "createLoc", "open", "none", 0, up1, up2)

acceptCollectionLoc(b, c, up) == acceptLoc(b, c, up)

openCollectionLoc(b, c, up1, up2) ==
    LedgerThenBackend(b, c, "createLoc", "open", "none", 0, up1, up2)

close(b, c, up1, up2) ==
    LedgerThenBackend(b, c, "close", "close", "none", 0, up1, up2)

voidLoc(b, c, up1, up2) ==
    LedgerThenBackend(b, c, "makeVoid", "void", "none", 0, up1, up2)

(* ------------- collection items and tokens records (LocClient.ts) ------- *)
\* the backend's collection data: the ids it holds a record for, the hash of
\* the file each record declares ("none": no file), and the ids whose file
\* has been uploaded
NoOffchain == [data |-> {}, files |-> {}, declared |-> [id \in EntryIds |-> "none"]]

\* a file as the ledger holds it
NoFile == [hash |-> "none", size |-> 0]

NoChainFiles == [id \in EntryIds |-> NoFile]

\* how one HTTP call on the backend's collection data ends
Served(off) == [ok |-> TRUE, off |-> off]

Refused(off) == [ok |-> FALSE, off |-> off]

\* ItemFileWithContent.finalize of the file of the parameters: kind "hash" has
\* no content, kind "content" has content of contentSize bytes; size 0 stands
\* for a size that was not given
finalize(kind, size, contentSize) ==
    IF kind = "content"
    THEN IF size = 0 THEN [ok |-> TRUE, size |-> contentSize]
         ELSE IF size # contentSize THEN [ok |-> FALSE, size |-> size]
         ELSE [ok |-> TRUE, size |-> size]
    ELSE [ok |-> TRUE, size |-> size]

\* chainItemFiles: the file submitted to the ledger
chainItemFiles(kind, hash, size, contentSize) ==
    IF kind = "none" THEN NoFile
    ELSE [hash |-> hash, size |-> finalize(kind, size, contentSize).size]

\* a POST that replaces the record the backend already holds under the id
submitItemPublicDataReplacing(off, itemId, hash, up) ==
    IF up
    THEN Served([off EXCEPT !.data = @ \cup {itemId}, !.declared[itemId] = hash])
    ELSE Refused(off)

\* POST /api/collection/{locId}/items
submitItemPublicData(off, itemId, hash, up) ==
    IF up /\ itemId \notin off.data
    THEN Served([off EXCEPT !.data = @ \cup {itemId}, !.declared[itemId] = hash])
    ELSE Refused(off)

\* a cancellation that deletes nothing
cancelItemPublicDataSubmissionSkipped(off, itemId, up) == Served(off)

\* DELETE /api/collection/{locId}/items/{itemId}
cancelItemPublicDataSubmission(off, itemId, up) ==
    IF up /\ itemId \in off.data
    THEN Served([off EXCEPT !.data = @ \ {itemId}, !.declared[itemId] = "none"])
    ELSE Refused(off)

\* POST /api/collection/{locId}/{itemId}/files
uploadItemFile(off, itemId, hash, up) ==
    IF up /\ itemId \in off.data /\ off.declared[itemId] = hash
    THEN Served([off EXCEPT !.files = @ \cup {itemId}])
    ELSE Refused(off)

\* POST /api/records/{locId}/record
submitRecordPublicData(off, recordId, hash, up) ==
    IF up /\ recordId \notin off.data
    THEN Served([off EXCEPT !.data = @ \cup {recordId}, !.declared[recordId] = hash])
    ELSE Refused(off)

\* DELETE /api/records/{locId}/record/{recordId}
cancelRecordPublicDataSubmission(off, recordId, up) ==
    IF up /\ recordId \in off.data
    THEN Served([off EXCEPT !.data = @ \ {recordId}, !.declared[recordId] = "none"])
    ELSE Refused(off)

\* POST /api/records/{locId}/{recordId}/files
uploadTokensRecordFile(off, recordId, hash, up) ==
    IF up /\ recordId \in off.data /\ off.declared[recordId] = hash
    THEN Served([off EXCEPT !.files = @ \cup {recordId}])
    ELSE Refused(off)

\* signer.signAndSend of logionLoc.addCollectionItem / logionLoc.addTokensRecord
signAndSendEntry(c, on, id, up) ==
    IF up /\ c.exists /\ c.closed /\ ~c.void /\ id \notin on
    THEN [ok |-> TRUE, on |-> on \cup {id}]
    ELSE [ok |-> FALSE, on |-> on]

\* a validTokenOrThrow that never throws
validTokenOrThrowSkipped(itemToken) == TRUE

\* does the token definition pass validTokenOrThrow: validateToken accepts it
\* and its issuance is at least 1
validTokenOrThrow(itemToken) == itemToken = "valid"

\* what addCollectionItem / addTokensRecord leaves behind: the collaborators'
\* data, the error thrown, whether the public data was announced to the backend
\* and whether the ledger submission failed
Added(off, on, err, announced, ledgerFailed) ==
    [off |-> off, on |-> on, err |-> err, announced |-> announced,
     ledgerFailed |-> ledgerFailed]

addCollectionItem(c, off, on, p, up) ==
    IF p.itemFiles # "none" /\ ~finalize(p.itemFiles, p.size, p.contentSize).ok
    THEN Added(off, on, "validation", FALSE, FALSE)
    ELSE IF p.restrictedDelivery /\ (p.itemFiles = "none" \/ p.itemToken = "none")
    THEN Added(off, on, "validation", FALSE, FALSE)
    ELSE IF p.itemToken # "none" /\ ~validTokenOrThrow(p.itemToken)
    THEN Added(off, on, "validation", FALSE, FALSE)
    ELSE IF p.logionClassification /\ p.creativeCommons
    THEN Added(off, on, "validation", FALSE, FALSE)
    ELSE
    LET hash == IF p.itemFiles = "none" THEN "none" ELSE p.hash
        a == submitItemPublicData(off, p.itemId, hash, up.post) IN
    IF ~a.ok THEN Added(off, on, "backend", FALSE, FALSE)
    ELSE
    LET s == signAndSendEntry(c, on, p.itemId, up.ledger) IN
    IF ~s.ok
    THEN LET d == cancelItemPublicDataSubmission(a.off, p.itemId, up.delete) IN
         Added(d.off, on, IF d.ok THEN "ledger" ELSE "backend", TRUE, TRUE)
    ELSE IF p.itemFiles = "content"
    THEN LET u == uploadItemFile(a.off, p.itemId, p.hash, up.upload) IN
         Added(u.off, s.on, IF u.ok THEN "none" ELSE "backend", TRUE, FALSE)
    ELSE Added(a.off, s.on, "none", TRUE, FALSE)

addTokensRecord(c, off, on, p, up) ==
    IF p.files # "none" /\ ~finalize(p.files, p.size, p.contentSize).ok
    THEN Added(off, on, "validation", FALSE, FALSE)
    ELSE
    LET hash == IF p.files = "none" THEN "none" ELSE p.hash
        a == submitRecordPublicData(off, p.recordId, hash, up.post) IN
    IF ~a.ok THEN Added(off, on, "backend", FALSE, FALSE)
    ELSE
    LET s == signAndSendEntry(c, on, p.recordId, up.ledger) IN
    IF ~s.ok
    THEN LET d == cancelRecordPublicDataSubmission(a.off, p.recordId, up.delete) IN
         Added(d.off, on, IF d.ok THEN "ledger" ELSE "backend", TRUE, TRUE)
    ELSE IF p.files = "content"
    THEN LET u == uploadTokensRecordFile(a.off, p.recordId, p.hash, up.upload) IN
         Added(u.off, s.on, IF u.ok THEN "none" ELSE "backend", TRUE, FALSE)
    ELSE Added(a.off, s.on, "none", TRUE, FALSE)

(* ------------- reading the collection (LocClient, Queries.ts) ----------- *)
\* what a read returns: a merged entry, undefined, or a thrown error
Undefined == [kind |-> "undefined", id |-> "none", file |-> NoFile, uploaded |-> FALSE]

Thrown == [kind |-> "error", id |-> "none", file |-> NoFile, uploaded |-> FALSE]

\* nodeApi.queries.getCollectionItem / logionLoc.tokensRecordsMap: the entry the
\* ledger holds under the id, or undefined
onchainItem(on, cf, id) ==
    IF id \in on THEN [kind |-> "onchain", id |-> id, file |-> cf[id], uploaded |-> FALSE]
    ELSE Undefined

\* a getOffchainItem that returns an empty record where the backend has none
getOffchainItemLenient(off, id, up) ==
    [ok |-> TRUE, itemId |-> id, hash |-> off.declared[id], uploaded |-> id \in off.files]

\* getOffchainItem / getOffchainRecord: GET of one record, which throws when the
\* backend cannot be reached or holds no record under the id
getOffchainItem(off, id, up) ==
    IF up /\ id \in off.data
    THEN [ok |-> TRUE, itemId |-> id, hash |-> off.declared[id], uploaded |-> id \in off.files]
    ELSE [ok |-> FALSE, itemId |-> id, hash |-> "none", uploaded |-> FALSE]

\* a mergeItems that takes nothing from the backend's files
mergeItemsWithoutBackend(onItem, offItem) ==
    IF onItem = Undefined THEN Thrown
    ELSE [kind |-> "item", id |-> onItem.id, file |-> onItem.file, uploaded |-> FALSE]

\* mergeItems: id, hash and size come from the ledger's entry, uploaded from the
\* backend's file of the same hash; reading a field of an undefined ledger
\* entry throws
mergeItems(onItem, offItem) ==
    IF onItem = Undefined THEN Thrown
    ELSE [kind |-> "item", id |-> onItem.id, file |-> onItem.file,
          uploaded |-> /\ onItem.file # NoFile
                       /\ offItem.hash = onItem.file.hash
                       /\ offItem.uploaded]

\* mergeRecords: the id comes from the backend's record, the rest as mergeItems
mergeRecords(onItem, offItem) ==
    IF onItem = Undefined THEN Thrown
    ELSE [kind |-> "item", id |-> offItem.itemId, file |-> onItem.file,
          uploaded |-> /\ onItem.file # NoFile
                       /\ offItem.hash = onItem.file.hash
                       /\ offItem.uploaded]

getCollectionItem(on, cf, off, itemId, up) ==
    LET onItem == onchainItem(on, cf, itemId) IN
    IF onItem = Undefined THEN Undefined
    ELSE LET offItem == getOffchainItem(off, itemId, up) IN
         IF offItem.ok THEN mergeItems(onItem, offItem) ELSE Thrown

getTokensRecord(on, cf, off, recordId, up) ==
    LET onItem == onchainItem(on, cf, recordId) IN
    IF onItem = Undefined THEN Undefined
    ELSE LET offItem == getOffchainItem(off, recordId, up) IN
         IF offItem.ok THEN mergeRecords(onItem, offItem) ELSE Thrown

\* what a read of the whole collection returns: the merged entries, or a
\* thrown error
Listed(entries) == [ok |-> TRUE, entries |-> entries]

ListThrown == [ok |-> FALSE, entries |-> {}]

\* getCollectionItems: one merge per record of the backend's list
getCollectionItems(on, cf, off, up) ==
    IF ~up THEN ListThrown
    ELSE LET offchainItems == off.data \cap CollectionItemIds
             merged == {mergeItems(onchainItem(on, cf, id), getOffchainItem(off, id, TRUE)) :
                           id \in offchainItems}
         IN IF Thrown \in merged THEN ListThrown ELSE Listed(merged)

\* getTokensRecords: one merge per record of the backend's list
getTokensRecords(on, cf, off, up) ==
    IF ~up THEN ListThrown
    ELSE LET offchainTokenRecords == off.data \cap RecordIds
             merged == {mergeRecords(onchainItem(on, cf, id), getOffchainItem(off, id, TRUE)) :
                           id \in offchainTokenRecords}
         IN IF Thrown \in merged THEN ListThrown ELSE Listed(merged)

(* ----------------------- state objects (State, Loc) --------------------- *)
\* a state object: its class, its discarded flag, and the calls on it that are
\* suspended (those that began while it was current, and those that began after
\* it was discarded)
NoObj == [kind |-> "NoObj", discarded |-> FALSE, pending |-> 0, late |-> 0]

Slots == ({"requester"} \X VarIds) \cup {<<"legalOfficer", 1>>}

\* no LOC taken for a collection
IsCollectionNever(t) == FALSE

IsCollection(t) == t = "Collection"

\* a state class that does not show a rejection
StageOfHidingRejection(t, b, c) ==
    CASE b.status = "NONE"            -> "None"
      [] b.status = "CANCELLED"       -> "CancelledRequest"
      [] b.status = "DRAFT"           -> "DraftRequest"
      [] b.status \in {"REVIEW_PENDING", "REVIEW_REJECTED"} -> "PendingRequest"
      [] b.status = "REVIEW_ACCEPTED" -> "AcceptedRequest"
      [] OTHER ->
           IF c.void \/ b.void
           THEN (IF t = "Collection" THEN "VoidedCollectionLoc" ELSE "VoidedLoc")
           ELSE IF c.closed \/ b.status = "CLOSED"
           THEN (IF t = "Collection" THEN "ClosedCollectionLoc" ELSE "ClosedLoc")
           ELSE "OpenLoc"

\* the concrete state class built from fresh backend and ledger data
StageOf(t, b, c) ==
    CASE b.status = "NONE"            -> "None"
      [] b.status = "CANCELLED"       -> "CancelledRequest"
      [] b.status = "DRAFT"           -> "DraftRequest"
      [] b.status = "REVIEW_PENDING"  -> "PendingRequest"
      [] b.status = "REVIEW_REJECTED" -> "RejectedRequest"
      [] b.status = "REVIEW_ACCEPTED" -> "AcceptedRequest"
      [] OTHER ->
           IF c.void \/ b.void
           THEN (IF IsCollection(t) THEN "VoidedCollectionLoc" ELSE "VoidedLoc")
           ELSE IF c.closed \/ b.status = "CLOSED"
           THEN (IF IsCollection(t) THEN "ClosedCollectionLoc" ELSE "ClosedLoc")
           ELSE "OpenLoc"

\* a new state object: its class follows the data it was built from, and it is
\* not discarded
NewState(t, b, c) ==
    [kind |-> StageOf(t, b, c), discarded |-> FALSE, pending |-> 0, late |-> 0]

\* an ensureCurrent that never throws
ensureCurrentSkipped(o) == TRUE

\* State.ensureCurrent: passes when the state was not discarded
ensureCurrent(o) == ~o.discarded

\* State.discard
discard(o) == [o EXCEPT !.discarded = TRUE]

ItemOps == {"addMetadata", "deleteMetadata", "addFile", "deleteFile"}

\* the transition methods a state class offers to the requester
RequesterOps(kind) ==
    CASE kind = "DraftRequest"    -> ItemOps \cup {"submit"}
      [] kind = "RejectedRequest" -> {"rework", "cancel"}
      [] kind = "AcceptedRequest" -> {"open"}
      [] kind = "OpenLoc"         -> ItemOps \cup {"requestFileReview", "requestMetadataReview",
                                                   "publishFile", "publishMetadata"}
      [] OTHER -> {}

\* the transition methods a state class offers through its legalOfficer commands
LegalOfficerOps(kind) ==
    CASE kind = "PendingRequest" -> {"reject", "accept"}
      [] kind = "OpenLoc"        -> {"reviewFile", "reviewMetadata", "acknowledgeFile",
                                     "acknowledgeMetadata", "close", "voidLoc"}
      [] kind \in {"ClosedLoc", "ClosedCollectionLoc"} -> {"voidLoc"}
      [] OTHER -> {}

OpsOf(a, kind) ==
    (IF a = "requester" THEN RequesterOps(kind) ELSE LegalOfficerOps(kind)) \cup {"refresh"}

\* the items an operation may name, and the arguments it may carry
ItemsOf(op) ==
    CASE op \in {"addMetadata", "deleteMetadata", "requestMetadataReview", "reviewMetadata",
                 "publishMetadata", "acknowledgeMetadata"} -> MetadataIds
      [] op \in {"addFile", "deleteFile", "requestFileReview", "reviewFile",
                 "publishFile", "acknowledgeFile"} -> FileIds
      [] OTHER -> {"none"}

ArgsOf(op) ==
    CASE op = "addMetadata" -> Values
      [] op = "addFile" -> {1}
      [] op \in {"reviewFile", "reviewMetadata"} -> {0, 1}
      [] OTHER -> {0}

\* the client method a transition method of a state object runs
Run(op, t, b, c, i, arg, up1, up2) ==
    CASE op = "refresh"        -> getLocRequest(b, c, up2)
      [] op = "addMetadata"    -> addMetadata(b, c, i, arg, up2)
      [] op = "deleteMetadata" -> deleteMetadata(b, c, i, up2)
      [] op = "addFile"        -> addFile(b, c, i, arg, up2)
      [] op = "deleteFile"     -> deleteFile(b, c, i, up2)
      [] op = "submit"         -> submit(b, c, up2)
      [] op = "rework"         -> rework(b, c, up2)
      [] op = "cancel"         -> cancel(b, c, up2)
      [] op = "reject"         -> rejectLoc(b, c, up2)
      [] op = "accept"         ->
           (CASE t = "Transaction" -> acceptTransactionLoc(b, c, "account", up1, up2)
              [] t = "Identity"    -> acceptIdentityLoc(b, c, "account", up1, up2)
              [] OTHER             -> acceptCollectionLoc(b, c, up2))
      [] op = "open"           ->
           (CASE t = "Transaction" -> openTransactionLoc(b, c, up1, up2)
              [] t = "Identity"    -> openIdentityLoc(b, c, up1, up2)
              [] OTHER             -> openCollectionLoc(b, c, up1, up2))
      [] op = "requestFileReview"     -> requestFileReview(b, c, i, up2)
      [] op = "requestMetadataReview" -> requestMetadataReview(b, c, i, up2)
      [] op = "reviewFile"            -> reviewFile(b, c, i, arg, up2)
      [] op = "reviewMetadata"        -> reviewMetadata(b, c, i, arg, up2)
      [] op = "publishFile"           -> publishFile(b, c, i, up1, up2)
      [] op = "publishMetadata"       -> publishMetadata(b, c, i, up1, up2)
      [] op = "acknowledgeFile"       -> acknowledgeFile(b, c, i, up1, up2)
      [] op = "acknowledgeMetadata"   -> acknowledgeMetadata(b, c, i, up1, up2)
      [] op = "close"                 -> close(b, c, up1, up2)
      [] op = "voidLoc"               -> voidLoc(b, c, up1, up2)
      [] OTHER -> Res(b, c, "validation")

\* does the method submit to the ledger before it calls the backend
UsesLedger(op) ==
    op \in {"open", "publishFile", "publishMetadata", "acknowledgeFile",
            "acknowledgeMetadata", "close", "voidLoc"}

(* ------------------------------- actions ------------------------------- *)
\* what the caller of the last recorded call saw: who called which method on
\* which item, how the call ended ("ok", "stale", or the error thrown), and the
\* state object it was called on: "current" (not discarded when the call
\* ended), "superseded" (discarded between the beginning and the end of the
\* call) or "discarded" (discarded when the call began)
NoLast == [actor |-> "none", op |-> "none", item |-> "none", outcome |-> "none",
           src |-> "none"]

\* what the caller of the last addCollectionItem / addTokensRecord saw
NoAdd == [what |-> "none", id |-> "none", err |-> "none", announced |-> FALSE,
          ledgerFailed |-> FALSE]

\* what the caller of the last read of the collection saw: the method, the id
\* it asked for, whether the backend could be reached, and what was returned
NoGet == [op |-> "none", id |-> "none", up |-> TRUE, one |-> Undefined,
          all |-> ListThrown]

(* ------------------- queries over several endpoints -------------------- *)
\* the endpoints of the legal officers (networkState)
Endpoints == {"A", "B", "C"}

\* the LOC requests an endpoint holds for the caller, as the array it answers
LocRequestsOf(e) ==
    {<<>>, <<[endpoint |-> e, id |-> "x"]>>,
     <<[endpoint |-> e, id |-> "x"], [endpoint |-> e, id |-> "y"]>>,
     <<[endpoint |-> e, id |-> "y"], [endpoint |-> e, id |-> "x"]>>}

\* a request: "idle" (not sent), "sent", "ok" or "failed"; the array the
\* endpoint answered; and its rank among the requests that have settled
NoRequest == [state |-> "idle", data |-> <<>>, at |-> 0]

NotFetched == [state |-> "none", result |-> <<>>]

\* the value getLocIssuers returns for a request that is not open or closed
EMPTY_LOC_ISSUERS == [verifiedIssuer |-> FALSE, issuers |-> <<>>]

\* the caller of the last getLocIssuers call and what it got
NoIssuers == [caller |-> [address |-> "none", type |-> "none"],
              result |-> EMPTY_LOC_ISSUERS]

\* a size: one that was not given (undefined), or a number of bytes
NoSize == [defined |-> FALSE, n |-> 0]
SizeOf(n) == [defined |-> TRUE, n |-> n]

\* no ItemFileWithContent object yet
NoItemFile == [state |-> "none", given |-> NoSize, size |-> NoSize,
               hasContent |-> FALSE, contentSize |-> 0, matches |-> TRUE,
               op |-> "none", threw |-> FALSE, read |-> NoSize]

\* LogionLicenseParameters without rights, regional limit and expiration
NoParameters == [transferredRights |-> {},
                 regionalLimit |-> [defined |-> FALSE, value |-> <<>>],
                 expiration |-> [defined |-> FALSE, value |-> ""]]

\* no LogionClassification object yet
NoTerms == [op |-> "none", parameters |-> NoParameters, validated |-> FALSE,
            threw |-> FALSE, errors |-> <<>>]

\* a value of a JSON document: undefined (no such field), null, a string, a
\* number or an object
JsonUndefined == [type |-> "undefined", text |-> "", n |-> 0]

\* a text that JSON.parse rejects
NotJson == [kind |-> "invalid", contract |-> JsonUndefined, id |-> JsonUndefined]

\* validateToken was not called yet
NoToken == [op |-> "none", type |-> <<>>,
            id |-> [chars |-> <<>>, json |-> NotJson, address |-> "none"],
            valid |-> FALSE, error |-> "none", threw |-> FALSE,
            issuance |-> 0, message |-> <<>>]

\* no client method was invoked yet
NoInvocation == [client |-> "none", op |-> "none", calls |-> <<>>, to |-> <<>>,
                 error |-> "none",
                 failed |-> {}]

\* no value object is held
ValuesIdle ==
    /\ itemFile = NoItemFile
    /\ terms = NoTerms
    /\ token = NoToken
    /\ invocation = NoInvocation

\* no query is under way
QueriesIdle ==
    /\ requests = [e \in Endpoints |-> NoRequest]
    /\ multiResponse = <<>>
    /\ fetched = NotFetched
    /\ nodeIssuers = <<>>
    /\ selectedIssuers = <<>>
    /\ lastIssuers = NoIssuers
    /\ ValuesIdle

Init ==
    /\ locType = "Transaction"
    /\ backend = NoBackend
    /\ chain = NoChain
    /\ objs = [s \in Slots |-> NoObj]
    /\ last = NoLast
    /\ offchain = NoOffchain
    /\ onchain = {}
    /\ lastAdd = NoAdd
    /\ chainFiles = NoChainFiles
    /\ lastGet = NoGet
    /\ QueriesIdle

RECURSIVE SumOver(_, _)
SumOver(f, S) == IF S = {} THEN 0
                 ELSE LET x == CHOOSE y \in S : TRUE IN f[x] + SumOver(f, S \ {x})

\* number of calls that are suspended
Suspended == SumOver([s \in Slots |-> objs[s].pending + objs[s].late], Slots)

Outcome(r) == IF r.err = "none" THEN "ok" ELSE r.err

\* LocsState.requestTransactionLoc / requestCollectionLoc / requestIdentityLoc
Request(t, draft, up) ==
    /\ backend.status = "NONE"
    /\ LET r == createLocRequest(backend, chain, draft, up) IN
       /\ backend' = r.b
       /\ chain' = r.c
       /\ locType' = IF r.err = "none" THEN t ELSE locType
       /\ objs' = IF r.err = "none"
                  THEN [objs EXCEPT ![<<"requester", 1>>] = NewState(t, r.b, r.c)]
                  ELSE objs
       /\ last' = [NoLast EXCEPT !.actor = "requester", !.op = "request",
                                 !.outcome = Outcome(r)]
    /\ UNCHANGED <<collectionVars, queryVars>>

\* LocsState.findById on a freshly fetched LocsState, kept in an unused variable
Fetch(a, v) ==
    /\ BackendAccepts(backend, "get", "none", 0)
    /\ objs[<<a, v>>] = NoObj
    /\ objs' = [objs EXCEPT ![<<a, v>>] = NewState(locType, backend, chain)]
    /\ UNCHANGED <<locType, backend, chain, last>>
    /\ UNCHANGED <<collectionVars, queryVars>>

\* a transition method is called on a state object; the call passes
\* ensureCurrent and is suspended on its first backend or ledger call
StartCall(a, v) ==
    /\ objs[<<a, v>>] # NoObj
    /\ Suspended < MaxCalls
    /\ ensureCurrent(objs[<<a, v>>])
    /\ objs' = IF objs[<<a, v>>].discarded
               THEN [objs EXCEPT ![<<a, v>>].late = @ + 1]
               ELSE [objs EXCEPT ![<<a, v>>].pending = @ + 1]
    /\ UNCHANGED <<locType, backend, chain, last>>
    /\ UNCHANGED <<collectionVars, queryVars>>

\* a transition method is called on a state object that was discarded
StaleCall(a, v, op, i) ==
    /\ objs[<<a, v>>] # NoObj
    /\ op \in OpsOf(a, objs[<<a, v>>].kind)
    /\ i \in ItemsOf(op)
    /\ ~ensureCurrent(objs[<<a, v>>])
    /\ last' = [actor |-> a, op |-> op, item |-> i, outcome |-> "stale",
                src |-> "discarded"]
    /\ UNCHANGED <<locType, backend, chain, objs>>
    /\ UNCHANGED <<collectionVars, queryVars>>

\* what the caller sees of a call whose client method left r
Seen(a, v, live, op, i, r) ==
    [actor |-> a, op |-> op, item |-> i, outcome |-> Outcome(r),
     src |-> IF ~live THEN "discarded"
             ELSE IF objs[<<a, v>>].discarded THEN "superseded" ELSE "current"]

\* a transition that discards every state object held for the LOC, whoever
\* holds it, and not only the one it was called on
FinishDiscardingAll(a, v, dst, r, held) ==
    /\ backend' = r.b
    /\ chain' = r.c
    /\ objs' = IF r.err = "none"
               THEN [s \in Slots |->
                       IF s = <<a, dst>> THEN NewState(locType, r.b, r.c)
                       ELSE IF held[s] = NoObj THEN NoObj ELSE discard(held[s])]
               ELSE held
    /\ UNCHANGED locType
    /\ UNCHANGED <<collectionVars, queryVars>>

\* the end of a transition method of the object in variable v of actor a, whose
\* client method left r: State.discardOnSuccess discards the object and returns
\* the next state (kept in variable dst) only when the action did not throw;
\* held is what the actor's variables hold when the method ends
Finish(a, v, dst, r, held) ==
    /\ backend' = r.b
    /\ chain' = r.c
    /\ objs' = IF r.err = "none"
               THEN IF dst = v
                    THEN [held EXCEPT ![<<a, v>>] = NewState(locType, r.b, r.c)]
                    ELSE [held EXCEPT ![<<a, v>>] = discard(@),
                                      ![<<a, dst>>] = NewState(locType, r.b, r.c)]
               ELSE held
    /\ UNCHANGED locType
    /\ UNCHANGED <<collectionVars, queryVars>>

\* a suspended call of method op resumes and ends
EndCall(a, v, live, op, i, arg, dst, up1, up2) ==
    /\ IF live THEN objs[<<a, v>>].pending > 0 ELSE objs[<<a, v>>].late > 0
    /\ op \in OpsOf(a, objs[<<a, v>>].kind)
    /\ <<a, dst>> \in Slots
    /\ IF dst = v THEN objs[<<a, v>>].pending + objs[<<a, v>>].late = 1
                  ELSE objs[<<a, dst>>] = NoObj
    /\ LET r == Run(op, locType, backend, chain, i, arg, up1, up2) IN
       /\ Finish(a, v, dst, r,
                 IF live THEN [objs EXCEPT ![<<a, v>>].pending = @ - 1]
                         ELSE [objs EXCEPT ![<<a, v>>].late = @ - 1])
       /\ last' = Seen(a, v, live, op, i, r)

\* a transition method is called on a current state object and runs to its end
\* before anything else happens; the caller keeps the returned state in the
\* same variable, and a call that fails without any effect leaves no record
Call(a, v, op, i, arg, up1, up2) ==
    /\ objs[<<a, v>>] # NoObj
    /\ op \in OpsOf(a, objs[<<a, v>>].kind)
    /\ ensureCurrent(objs[<<a, v>>])
    /\ LET r == Run(op, locType, backend, chain, i, arg, up1, up2) IN
       /\ Finish(a, v, v, r, objs)
       /\ last' = IF r.err = "none" \/ r.c # chain THEN Seen(a, v, TRUE, op, i, r) ELSE last

\* the transition methods that act on the LOC as a whole
LocOps == {"refresh", "submit", "rework", "cancel", "reject", "accept", "open",
           "close", "voidLoc"}

\* the transition methods of a LOC request, up to its opening
RequestOps == {"refresh", "submit", "rework", "cancel", "reject", "accept", "open"}

\* can the ledger submission of the method fail on its own
Ups(op) == IF UsesLedger(op) THEN BOOLEAN ELSE {TRUE}

\* each actor keeps the current state object in one variable and replaces it by
\* the state every transition returns; calls do not overlap
Next ==
    \/ \E t \in LocTypes, draft \in {0, 1}, up \in BOOLEAN : Request(t, draft, up)
    \/ \E a \in Actors : Fetch(a, 1)
    \/ \E a \in Actors : \E op \in OpsOf(a, objs[<<a, 1>>].kind) :
          \E i \in ItemsOf(op), arg \in ArgsOf(op), up1 \in Ups(op), up2 \in BOOLEAN :
             Call(a, 1, op, i, arg, up1, up2)

Spec == Init /\ [][Next]_vars

\* the requester keeps state objects in several variables, each assigned once
\* or overwritten by the state a call on its own object returns, and the
\* requester's calls on the state objects of a LOC request overlap
NextState ==
    \/ \E draft \in {0, 1}, up \in BOOLEAN : Request("Transaction", draft, up)
    \/ \E s \in Slots : Fetch(s[1], s[2])
    \/ \E v \in VarIds : StartCall("requester", v)
    \/ \E v \in VarIds :
          \E op \in OpsOf("requester", objs[<<"requester", v>>].kind) \cap RequestOps :
             StaleCall("requester", v, op, "none")
    \/ \E v \in VarIds, live \in BOOLEAN, dst \in VarIds :
          \E op \in OpsOf("requester", objs[<<"requester", v>>].kind) \cap RequestOps :
             \E up1 \in Ups(op), up2 \in BOOLEAN :
                EndCall("requester", v, live, op, "none", 0, dst, up1, up2)
    \/ \E op \in OpsOf("legalOfficer", objs[<<"legalOfficer", 1>>].kind) \cap RequestOps :
          \E up2 \in BOOLEAN : Call("legalOfficer", 1, op, "none", 0, TRUE, up2)

SpecState == Init /\ [][NextState]_vars

(* ----------------- actions on a closed collection LOC ------------------- *)
\* the files given with an item or a record: none, one known by its hash only,
\* or one given with its content
FileChoices == {"none", "hash", "content"}

\* the files an ItemFileWithContent can be built for: without content the size
\* must be given; with content the size may be left out (0) or given, rightly
\* or wrongly
FileParams ==
    {f \in [kind : FileChoices, hash : Hashes, size : Sizes \cup {0}, contentSize : Sizes] :
        /\ f.contentSize = ContentSize(f.hash)
        /\ f.kind = "none" => f.hash = "h1" /\ f.size = 0
        /\ f.kind = "hash" => f.size = f.contentSize}

\* a token definition that validateToken accepts with an issuance of at least
\* 1 ("valid"), one it rejects ("invalid"), one it accepts with an issuance
\* below 1 ("noIssuance")
TokenChoices == {"none", "valid", "invalid", "noIssuance"}

\* token, restricted delivery and terms and conditions of an item; Creative
\* Commons terms are tried on items without token
TermsParams ==
    {t \in [itemToken : TokenChoices, restrictedDelivery : BOOLEAN,
            logionClassification : BOOLEAN, creativeCommons : BOOLEAN] :
        t.creativeCommons => t.itemToken = "none" /\ ~t.restrictedDelivery}

AddCollectionItemParams ==
    {[itemId |-> id, itemFiles |-> f.kind, hash |-> f.hash, size |-> f.size,
      contentSize |-> f.contentSize, itemToken |-> t.itemToken,
      restrictedDelivery |-> t.restrictedDelivery,
      logionClassification |-> t.logionClassification,
      creativeCommons |-> t.creativeCommons] :
        id \in CollectionItemIds, f \in FileParams, t \in TermsParams}

AddTokensRecordParams ==
    {[recordId |-> id, files |-> f.kind, hash |-> f.hash, size |-> f.size,
      contentSize |-> f.contentSize] :
        id \in RecordIds, f \in {g \in FileParams : g.hash = "h1"}}

\* which of the calls of one addCollectionItem / addTokensRecord go through
Availability ==
    {up \in [post : BOOLEAN, ledger : BOOLEAN, delete : BOOLEAN, upload : BOOLEAN] :
        /\ ~up.post => up.ledger /\ up.upload
        /\ up.ledger => up.delete
        /\ ~up.ledger => up.upload}

\* every call goes through
AllUp == [post |-> TRUE, ledger |-> TRUE, delete |-> TRUE, upload |-> TRUE]

\* the calls of addCollectionItem that are tried: items with token, restricted
\* delivery or terms and conditions while every call goes through, items
\* without them under every availability
AddCollectionItemCalls ==
    {c \in AddCollectionItemParams \X Availability :
        \/ c[2] = AllUp
        \/ /\ c[1].itemToken = "none" /\ ~c[1].restrictedDelivery
           /\ ~c[1].logionClassification /\ ~c[1].creativeCommons}

\* a collection LOC that the legal officer has closed, as the requester sees
\* it after refresh
InitCollection ==
    /\ locType = "Collection"
    /\ backend = [NoBackend EXCEPT !.status = "CLOSED"]
    /\ chain = [NoChain EXCEPT !.exists = TRUE, !.closed = TRUE]
    /\ objs = [s \in Slots |->
                 IF s[2] = 1
                 THEN NewState("Collection", [NoBackend EXCEPT !.status = "CLOSED"],
                               [NoChain EXCEPT !.exists = TRUE, !.closed = TRUE])
                 ELSE NoObj]
    /\ last = NoLast
    /\ offchain = NoOffchain
    /\ onchain = {}
    /\ lastAdd = NoAdd
    /\ chainFiles = NoChainFiles
    /\ lastGet = NoGet
    /\ QueriesIdle

\* the backend takes items, records and uploads for a LOC that it holds as
\* closed and not void
CollectionWritable(b) == b.status = "CLOSED" /\ ~b.void

\* the calls that go through, given what the backend holds for the LOC
Serving(b, up) ==
    [up EXCEPT !.post = @ /\ CollectionWritable(b), !.upload = @ /\ CollectionWritable(b)]

\* ClosedCollectionLoc.addCollectionItem
AddCollectionItem(p, up) ==
    /\ objs[<<"requester", 1>>].kind = "ClosedCollectionLoc"
    /\ ensureCurrent(objs[<<"requester", 1>>])
    /\ \E r \in {addCollectionItem(chain, offchain, onchain, p, Serving(backend, up))} :
       /\ offchain' = r.off
       /\ onchain' = r.on
       /\ lastAdd' = [what |-> "item", id |-> p.itemId, err |-> r.err,
                      announced |-> r.announced, ledgerFailed |-> r.ledgerFailed]
       /\ chainFiles' = IF r.on # onchain
                        THEN [chainFiles EXCEPT ![p.itemId] =
                                 chainItemFiles(p.itemFiles, p.hash, p.size, p.contentSize)]
                        ELSE chainFiles
    /\ UNCHANGED <<queryVars, locVars, lastGet>>

\* ClosedCollectionLoc.addTokensRecord
AddTokensRecord(p, up) ==
    /\ objs[<<"requester", 1>>].kind = "ClosedCollectionLoc"
    /\ ensureCurrent(objs[<<"requester", 1>>])
    /\ \E r \in {addTokensRecord(chain, offchain, onchain, p, Serving(backend, up))} :
       /\ offchain' = r.off
       /\ onchain' = r.on
       /\ lastAdd' = [what |-> "record", id |-> p.recordId, err |-> r.err,
                      announced |-> r.announced, ledgerFailed |-> r.ledgerFailed]
       /\ chainFiles' = IF r.on # onchain
                        THEN [chainFiles EXCEPT ![p.recordId] =
                                 chainItemFiles(p.files, p.hash, p.size, p.contentSize)]
                        ELSE chainFiles
    /\ UNCHANGED <<queryVars, locVars, lastGet>>

\* ClosedCollectionLoc.uploadCollectionItemFile: the content of a file that was
\* declared by its hash
UploadCollectionItemFile(itemId, hash, up) ==
    /\ objs[<<"requester", 1>>].kind = "ClosedCollectionLoc"
    /\ ensureCurrent(objs[<<"requester", 1>>])
    /\ \E r \in {uploadItemFile(offchain, itemId, hash, up /\ CollectionWritable(backend))} :
       /\ offchain' = r.off
       /\ lastAdd' = [what |-> "upload", id |-> itemId,
                      err |-> IF r.ok THEN "none" ELSE "backend",
                      announced |-> FALSE, ledgerFailed |-> FALSE]
    /\ UNCHANGED <<queryVars, locVars, onchain, chainFiles, lastGet>>

NextCollection ==
    \/ \E c \in AddCollectionItemCalls : AddCollectionItem(c[1], c[2])
    \/ \E p \in AddTokensRecordParams, up \in Availability : AddTokensRecord(p, up)
    \/ \E id \in CollectionItemIds, h \in Hashes, up \in BOOLEAN :
          UploadCollectionItemFile(id, h, up)

SpecCollection == InitCollection /\ [][NextCollection]_vars

(* ------------------------- discard-once ownership ----------------------- *)
\* the lifecycle stage of the LOC, as fresh backend and ledger data show it
Stage == StageOf(locType, backend, chain)

\* a suspended call has ended
Ended == Suspended' = Suspended - 1

Calls(s) == objs[s].pending + objs[s].late

\* C1: a transition that succeeds leaves the state object it was called on
\* discarded and returns a state object that is not discarded; a method called
\* on a discarded state object ends with the stale-state error and changes
\* neither the backend nor the ledger
C1_DiscardOnce ==
    [][ /\ (Ended /\ last'.outcome = "ok" =>
              \E v, dst \in VarIds :
                 LET src == <<"requester", v>>
                     res == <<"requester", dst>>
                 IN /\ Calls(src) > 0
                    /\ objs'[res] = NewState(locType', backend', chain')
                    /\ ~objs'[res].discarded
                    /\ IF dst = v THEN Calls(src) = 1
                       ELSE /\ objs'[src].discarded
                            /\ objs'[src].kind = objs[src].kind
                            /\ objs'[src].pending + objs'[src].late = Calls(src) - 1)
        /\ (last'.src = "discarded" =>
              /\ last'.outcome = "stale"
              /\ backend' = backend
              /\ chain' = chain) ]_vars

C1_Witness ==
    /\ last.op = "submit" /\ last.outcome = "stale" /\ last.src = "discarded"
    /\ \E v, w \in VarIds :
          /\ objs[<<"requester", v>>].kind = "DraftRequest"
          /\ objs[<<"requester", v>>].discarded
          /\ objs[<<"requester", w>>].kind = "PendingRequest"
          /\ ~objs[<<"requester", w>>].discarded

\* C2: a transition whose backend call or ledger submission fails throws that
\* error to its caller, produces no next state and leaves every state object as
\* it was, so that the object it was called on is still current and offers the
\* same method again
C2_FailureKeepsState ==
    [][ /\ (Ended /\ last'.op # "refresh" /\ backend' = backend =>
              last'.outcome \in {"backend", "ledger"})
        /\ (Ended /\ last'.outcome \in {"backend", "ledger"} =>
              /\ \A s \in Slots : /\ objs'[s].kind = objs[s].kind
                                  /\ objs'[s].discarded = objs[s].discarded
              /\ backend' = backend
              /\ last'.src = "current" =>
                    \E v \in VarIds :
                       /\ Calls(<<"requester", v>>) > 0
                       /\ ensureCurrent(objs'[<<"requester", v>>])
                       /\ last'.op \in OpsOf("requester", objs'[<<"requester", v>>].kind)) ]_vars

C2_Witness ==
    /\ last.op = "submit" /\ last.outcome = "backend" /\ last.src = "current"
    /\ backend.status = "DRAFT"
    /\ \E v \in VarIds : /\ objs[<<"requester", v>>].kind = "DraftRequest"
                         /\ ~objs[<<"requester", v>>].discarded

C4_CurrentOrDiscarded ==
    \A s \in Slots : objs[s] # NoObj /\ ~objs[s].discarded => objs[s].kind = Stage

\* C4, amended: a transition discards the state object it was called on and no
\* other; a state object shows the stage the LOC had when the object was
\* produced, and a transition made through another object leaves it not
\* discarded with that earlier snapshot
C4_OnlyOwnObjectDiscarded ==
    [][ \A s \in Slots :
          /\ (~objs[s].discarded /\ objs'[s].discarded =>
                /\ Ended
                /\ last'.outcome = "ok"
                /\ last'.actor = s[1]
                /\ objs'[s].kind = objs[s].kind
                /\ objs'[s].pending + objs'[s].late = Calls(s) - 1)
          /\ (objs'[s].kind # objs[s].kind =>
                objs'[s].kind = Stage' /\ ~objs'[s].discarded) ]_vars

C4_Witness ==
    /\ last.actor = "legalOfficer" /\ last.op = "reject" /\ last.outcome = "ok"
    /\ Stage = "RejectedRequest"
    /\ \E v \in VarIds : /\ objs[<<"requester", v>>].kind = "PendingRequest"
                         /\ ~objs[<<"requester", v>>].discarded

(* ------------------------------ lifecycle ------------------------------- *)
\* the edges of the lifecycle: the stage before, the operation, the stage after
LifecycleEdges ==
    {<<"None", "request", "DraftRequest">>,
     <<"None", "request", "PendingRequest">>,
     <<"DraftRequest", "submit", "PendingRequest">>,
     <<"PendingRequest", "reject", "RejectedRequest">>,
     <<"PendingRequest", "accept", "AcceptedRequest">>,
     <<"AcceptedRequest", "open", "OpenLoc">>,
     <<"RejectedRequest", "rework", "DraftRequest">>,
     <<"RejectedRequest", "cancel", "CancelledRequest">>,
     <<"OpenLoc", "close", "ClosedLoc">>,
     <<"OpenLoc", "close", "ClosedCollectionLoc">>,
     <<"OpenLoc", "voidLoc", "VoidedLoc">>,
     <<"OpenLoc", "voidLoc", "VoidedCollectionLoc">>,
     <<"ClosedLoc", "voidLoc", "VoidedLoc">>,
     <<"ClosedCollectionLoc", "voidLoc", "VoidedCollectionLoc">>}

Content ==
    <<{i \in ItemIds : backend.items[i].st # "ABSENT"},
      {i \in ItemIds : backend.items[i].st \in {"PUBLISHED", "ACKNOWLEDGED"}},
      {i \in ItemIds : backend.items[i].st = "ACKNOWLEDGED"},
      chain.items, chain.acked>>

\* C6: a voided or cancelled LOC keeps its stage, and nothing is added to,
\* deleted from, published in or acknowledged in a voided LOC
C6_Terminal ==
    [][ /\ (Stage \in {"VoidedLoc", "VoidedCollectionLoc", "CancelledRequest"} =>
              Stage' = Stage)
        /\ (Stage \in {"VoidedLoc", "VoidedCollectionLoc"} => Content' = Content) ]_vars

\* C7: on a rejected Transaction LOC, a rework that succeeds returns a
\* DraftRequest that is current, the request keeps every item with its value,
\* each metadata entry is DRAFT again, and the draft can be submitted
C7_ReworkKeepsMetadata ==
    [][ /\ locType = "Transaction" /\ Stage = "RejectedRequest"
        /\ last'.op = "rework" /\ last'.outcome = "ok"
        =>
        /\ Stage' = "DraftRequest"
        /\ objs'[<<"requester", 1>>].kind = "DraftRequest"
        /\ ensureCurrent(objs'[<<"requester", 1>>])
        /\ \A i \in ItemIds :
              backend'.items[i] =
                 IF backend.items[i].st = "REVIEW_REJECTED"
                 THEN [st |-> "DRAFT", val |-> backend.items[i].val]
                 ELSE backend.items[i]
        /\ \A i \in MetadataIds : backend'.items[i].st \in {"ABSENT", "DRAFT"}
        /\ "submit" \in OpsOf("requester", objs'[<<"requester", 1>>].kind)
        /\ BackendAccepts(backend', "submit", "none", 0) ]_vars

C7_Witness ==
    /\ locType = "Transaction" /\ Stage = "DraftRequest"
    /\ last.op = "rework" /\ last.outcome = "ok"
    /\ backend.items["m1"] = [st |-> "DRAFT", val |-> NumValues]
    /\ objs[<<"requester", 1>>].kind = "DraftRequest"
    /\ ~objs[<<"requester", 1>>].discarded

(* ---------------------------- review of items --------------------------- *)
\* the place of a status in the order of the review
Rank(st) ==
    CASE st = "DRAFT" -> 0
      [] st = "REVIEW_PENDING" -> 1
      [] st \in {"REVIEW_ACCEPTED", "REVIEW_REJECTED"} -> 2
      [] st = "PUBLISHED" -> 3
      [] st = "ACKNOWLEDGED" -> 4
      [] OTHER -> 0 - 1

\* item i, if it is there before and after the step, does not move back
MovesForward(i) ==
    LET before == backend.items[i]
        after == backend'.items[i]
    IN before.st # "ABSENT" /\ after.st # "ABSENT" =>
          /\ Rank(after.st) >= Rank(before.st)
          /\ (before.st = "REVIEW_REJECTED" => after.st = "REVIEW_REJECTED")
          /\ (before.st = "REVIEW_ACCEPTED" => after.st # "REVIEW_REJECTED")
          /\ after.val = before.val

\* C8, as stated: no operation moves an item back in the order of the review,
\* and an item that is REVIEW_REJECTED keeps that status as long as it exists
C8_Monotonic == [][\A i \in ItemIds : MovesForward(i)]_vars

\* C8, amended: no operation moves an item back in the order of the review,
\* and an item that is REVIEW_REJECTED keeps that status as long as it exists,
\* except that a rework of the LOC sets its REVIEW_REJECTED items back to DRAFT
C8_MonotonicButRework ==
    [][ \A i \in ItemIds :
          \/ MovesForward(i)
          \/ /\ last'.op = "rework" /\ last'.outcome = "ok"
             /\ Stage = "RejectedRequest"
             /\ backend.items[i].st = "REVIEW_REJECTED"
             /\ backend'.items[i] = [backend.items[i] EXCEPT !.st = "DRAFT"] ]_vars

C8_Witness ==
    /\ last.op = "rework" /\ last.outcome = "ok"
    /\ backend.items["f1"].st = "DRAFT"
    /\ backend.items["m1"].st = "ABSENT"

RequestReviewOps == {"requestFileReview", "requestMetadataReview"}

ReviewingOps == {"reviewFile", "reviewMetadata"}

PublishOps == {"publishFile", "publishMetadata"}

AcknowledgeOps == {"acknowledgeFile", "acknowledgeMetadata"}

\* the step that changed the status of item i was actor a's call of one of ops
By(a, ops, i) ==
    last'.actor = a /\ last'.op \in ops /\ last'.item = i /\ last'.outcome = "ok"

\* C9: in an open LOC an item becomes REVIEW_PENDING by the requester's review
\* request on a DRAFT item, REVIEW_ACCEPTED or REVIEW_REJECTED by the legal
\* officer's review of a REVIEW_PENDING item, PUBLISHED by the requester's
\* publish of a REVIEW_ACCEPTED item, and ACKNOWLEDGED by the legal officer's
\* acknowledge of a PUBLISHED item, and in no other way
C9_ReviewProtocol ==
    [][ backend.status = "OPEN" =>
          \A i \in ItemIds :
             LET before == backend.items[i].st
                 after == backend'.items[i].st
             IN after # before =>
                  CASE after = "REVIEW_PENDING" ->
                         before = "DRAFT" /\ By("requester", RequestReviewOps, i)
                    [] after \in {"REVIEW_ACCEPTED", "REVIEW_REJECTED"} ->
                         before = "REVIEW_PENDING" /\ By("legalOfficer", ReviewingOps, i)
                    [] after = "PUBLISHED" ->
                         /\ before = "REVIEW_ACCEPTED"
                         /\ By("requester", PublishOps, i)
                         /\ i \in chain'.items
                    [] after = "ACKNOWLEDGED" ->
                         /\ before = "PUBLISHED"
                         /\ By("legalOfficer", AcknowledgeOps, i)
                         /\ i \in chain'.acked
                    [] after = "DRAFT" -> before = "ABSENT"
                    [] OTHER -> after = "ABSENT" ]_vars

C9_Witness ==
    /\ backend.status = "OPEN"
    /\ backend.items["f1"].st = "ACKNOWLEDGED" /\ "f1" \in chain.acked
    /\ last.op = "acknowledgeFile" /\ last.outcome = "ok" /\ last.actor = "legalOfficer"

(* ------------------- collection items and tokens records ---------------- *)
\* C10, as stated: when addCollectionItem or addTokensRecord ends with a failed
\* ledger submission after it announced the public data to the backend, the
\* backend no longer holds that item or record
C10_NoOrphan ==
    lastAdd.ledgerFailed /\ lastAdd.announced => lastAdd.id \notin offchain.data

\* C10, amended: when addCollectionItem or addTokensRecord ends with a failed
\* ledger submission after it announced the public data to the backend, it has
\* asked the backend once to delete them: when the deletion succeeded, the
\* backend no longer holds the item or record and the caller gets the ledger's
\* error; when the deletion failed, the backend still holds it, the ledger does
\* not, and the caller gets the BackendError of the deletion instead
C10_OrphanOnlyWhenDeleteFails ==
    lastAdd.ledgerFailed =>
       /\ lastAdd.announced
       /\ lastAdd.err \in {"ledger", "backend"}
       /\ lastAdd.err = "ledger" => lastAdd.id \notin offchain.data
       /\ lastAdd.err = "backend" =>
             lastAdd.id \in offchain.data /\ lastAdd.id \notin onchain
       /\ lastAdd.id \notin offchain.files

C10_Witness ==
    /\ lastAdd.what = "item" /\ lastAdd.ledgerFailed /\ lastAdd.announced
    /\ lastAdd.err = "backend"
    /\ lastAdd.id \in offchain.data /\ lastAdd.id \notin onchain
    /\ \E r \in RecordIds : r \in onchain /\ r \in offchain.data

(* ------------------ the collection and the LOC's stage ------------------ *)
\* the calls of addCollectionItem tried while the LOC changes stage: item i1
\* with a file given by its hash, under every availability
StageCalls ==
    {c \in AddCollectionItemCalls :
        /\ c[1].itemId = "i1" /\ c[1].itemFiles = "hash" /\ c[1].hash = "h1"
        /\ c[1].itemToken = "none" /\ ~c[1].restrictedDelivery
        /\ ~c[1].logionClassification /\ ~c[1].creativeCommons}

\* a closed Collection LOC: the requester adds an item and uploads its file,
\* the legal officer voids the LOC, both refresh their state
NextStage ==
    \/ \E c \in StageCalls : AddCollectionItem(c[1], c[2])
    \/ \E up \in BOOLEAN : UploadCollectionItemFile("i1", "h1", up)
    \/ \E up1, up2 \in BOOLEAN : Call("legalOfficer", 1, "voidLoc", "none", 0, up1, up2)
    \/ \E a \in Actors, up \in BOOLEAN : Call(a, 1, "refresh", "none", 0, TRUE, up)

SpecStage == InitCollection /\ [][NextStage]_vars

(* ----------------------- reads of the collection ------------------------ *)
\* the files the ledger may hold for an entry
ChainFileChoices == {NoFile, [hash |-> "h1", size |-> 4], [hash |-> "h2", size |-> 5]}

\* a closed Collection LOC whose ledger entries and backend records are any
\* combination: entries the backend has no record of (backend behind), records
\* the ledger has no entry for (backend ahead), and files that differ
InitRead ==
    /\ locType = "Collection"
    /\ backend = [NoBackend EXCEPT !.status = "CLOSED"]
    /\ chain = [NoChain EXCEPT !.exists = TRUE, !.closed = TRUE]
    /\ objs = [s \in Slots |->
                 IF s[2] = 1
                 THEN NewState("Collection", [NoBackend EXCEPT !.status = "CLOSED"],
                               [NoChain EXCEPT !.exists = TRUE, !.closed = TRUE])
                 ELSE NoObj]
    /\ last = NoLast
    /\ lastAdd = NoAdd
    /\ lastGet = NoGet
    /\ QueriesIdle
    /\ onchain \in SUBSET EntryIds
    /\ chainFiles \in [EntryIds -> ChainFileChoices]
    /\ \A id \in EntryIds \ onchain : chainFiles[id] = NoFile
    /\ offchain \in [data : SUBSET EntryIds, files : SUBSET EntryIds,
                     declared : [EntryIds -> {"none", "h1"}]]
    /\ \A id \in EntryIds \ offchain.data : offchain.declared[id] = "none"
    /\ \A id \in offchain.files : offchain.declared[id] # "none"

\* ClosedCollectionLoc.getCollectionItem
GetCollectionItem(itemId, up) ==
    /\ lastGet' = [op |-> "getCollectionItem", id |-> itemId, up |-> up,
                   one |-> getCollectionItem(onchain, chainFiles, offchain, itemId, up),
                   all |-> ListThrown]
    /\ UNCHANGED <<queryVars, locVars, offchain, onchain, lastAdd, chainFiles>>

\* ClosedCollectionLoc.getTokensRecord
GetTokensRecord(recordId, up) ==
    /\ lastGet' = [op |-> "getTokensRecord", id |-> recordId, up |-> up,
                   one |-> getTokensRecord(onchain, chainFiles, offchain, recordId, up),
                   all |-> ListThrown]
    /\ UNCHANGED <<queryVars, locVars, offchain, onchain, lastAdd, chainFiles>>

\* ClosedCollectionLoc.getCollectionItems
GetCollectionItems(up) ==
    /\ lastGet' = [op |-> "getCollectionItems", id |-> "none", up |-> up,
                   one |-> Undefined,
                   all |-> getCollectionItems(onchain, chainFiles, offchain, up)]
    /\ UNCHANGED <<queryVars, locVars, offchain, onchain, lastAdd, chainFiles>>

\* ClosedCollectionLoc.getTokensRecords
GetTokensRecords(up) ==
    /\ lastGet' = [op |-> "getTokensRecords", id |-> "none", up |-> up,
                   one |-> Undefined,
                   all |-> getTokensRecords(onchain, chainFiles, offchain, up)]
    /\ UNCHANGED <<queryVars, locVars, offchain, onchain, lastAdd, chainFiles>>

NextRead ==
    \/ \E id \in CollectionItemIds, up \in BOOLEAN : GetCollectionItem(id, up)
    \/ \E id \in RecordIds, up \in BOOLEAN : GetTokensRecord(id, up)
    \/ \E up \in BOOLEAN : GetCollectionItems(up)
    \/ \E up \in BOOLEAN : GetTokensRecords(up)

SpecRead == InitRead /\ [][NextRead]_vars

\* C12: getCollectionItem and getTokensRecord return undefined when the ledger
\* holds no entry under the id, whatever the backend holds; the merged entry,
\* with the ledger's file, when both hold it; and throw, never returning
\* undefined, when the ledger holds it and the backend does not
C12_TwoSources ==
    lastGet.op \in {"getCollectionItem", "getTokensRecord"} =>
       /\ (lastGet.id \notin onchain => lastGet.one = Undefined)
       /\ (lastGet.id \in onchain /\ lastGet.id \in offchain.data /\ lastGet.up =>
             /\ lastGet.one.kind = "item"
             /\ lastGet.one.id = lastGet.id
             /\ lastGet.one.file = chainFiles[lastGet.id])
       /\ (lastGet.id \in onchain /\ lastGet.id \notin offchain.data =>
             lastGet.one = Thrown)

C12_Witness ==
    /\ lastGet.op = "getCollectionItem" /\ lastGet.id = "i1" /\ lastGet.up
    /\ "i1" \in onchain /\ "i1" \notin offchain.data
    /\ lastGet.one = Thrown
    /\ "r1" \in offchain.data /\ "r1" \notin onchain

\* the ids of the entries of a list
IdsOf(entries) == {e.id : e \in entries}

\* C13: with the backend reachable, getCollectionItems returns the merged
\* entries of exactly the items the ledger holds, and getTokensRecords those of
\* exactly the records the ledger holds: a record that only the backend holds
\* is left out without failing the call, and an entry of the ledger is never
\* left out
C13_ListFollowsLedger ==
    /\ (lastGet.op = "getCollectionItems" /\ lastGet.up =>
          /\ lastGet.all.ok
          /\ IdsOf(lastGet.all.entries) = onchain \cap CollectionItemIds)
    /\ (lastGet.op = "getTokensRecords" /\ lastGet.up =>
          /\ lastGet.all.ok
          /\ IdsOf(lastGet.all.entries) = onchain \cap RecordIds)

(* ------------------ validation in addCollectionItem --------------------- *)
\* the parameters that the validation of addCollectionItem refuses: a declared
\* size that differs from the size of the content, restricted delivery without
\* token or without file, a token definition that is invalid or has an
\* issuance below 1, Logion Classification together with Creative Commons
Invalid(p) ==
    \/ p.itemFiles = "content" /\ p.size # 0 /\ p.size # p.contentSize
    \/ p.restrictedDelivery /\ (p.itemFiles = "none" \/ p.itemToken = "none")
    \/ p.itemToken \in {"invalid", "noIssuance"}
    \/ p.logionClassification /\ p.creativeCommons

\* C11: addCollectionItem called with parameters that fail validation throws
\* the validation error and has announced nothing to the backend and submitted
\* nothing to the ledger, also when backend and ledger would have accepted
C11_ValidationFirst ==
    \A c \in AddCollectionItemCalls :
       Invalid(c[1]) =>
          \E r \in {addCollectionItem(chain, offchain, onchain, c[1], c[2])} :
             /\ r.err = "validation"
             /\ ~r.announced /\ ~r.ledgerFailed
             /\ r.off = offchain
             /\ r.on = onchain

C11_Witness ==
    /\ lastAdd.what = "item" /\ lastAdd.err = "validation" /\ lastAdd.id = "i2"
    /\ "i1" \in onchain /\ "i1" \in offchain.data
    /\ "i2" \notin onchain /\ "i2" \notin offchain.data

(* ------------------------- upload of item files -------------------------- *)
\* what getCollectionItem returns for the item before and after a step, the
\* backend being reachable
ItemBefore(id) == getCollectionItem(onchain, chainFiles, offchain, id, TRUE)

ItemAfter(id) == getCollectionItem(onchain', chainFiles', offchain', id, TRUE)

\* C14: an item that addCollectionItem added with a file and without uploading
\* its content is returned with that file's hash and size and uploaded = false;
\* when uploadCollectionItemFile succeeds for an item, the item is returned
\* with uploaded = true and with the id, file hash and file size it had
\* before, and the collection holds the same items as before
C14_UploadSetsFlag ==
    [][ /\ (/\ lastAdd'.what = "item" /\ lastAdd'.err = "none" /\ onchain' # onchain
            /\ chainFiles'[lastAdd'.id] # NoFile
            /\ offchain'.files = offchain.files
            =>
            /\ ItemAfter(lastAdd'.id).kind = "item"
            /\ ItemAfter(lastAdd'.id).id = lastAdd'.id
            /\ ItemAfter(lastAdd'.id).file = chainFiles'[lastAdd'.id]
            /\ ~ItemAfter(lastAdd'.id).uploaded)
        /\ (/\ lastAdd'.what = "upload" /\ lastAdd'.err = "none" /\ lastAdd' # lastAdd
            /\ ItemBefore(lastAdd'.id).kind = "item"
            =>
            /\ ItemAfter(lastAdd'.id) = [ItemBefore(lastAdd'.id) EXCEPT !.uploaded = TRUE]
            /\ ItemBefore(lastAdd'.id).file # NoFile
            /\ onchain' = onchain
            /\ chainFiles' = chainFiles
            /\ offchain'.data = offchain.data
            /\ getCollectionItems(onchain', chainFiles', offchain', TRUE).ok
                  = getCollectionItems(onchain, chainFiles, offchain, TRUE).ok
            /\ IdsOf(getCollectionItems(onchain', chainFiles', offchain', TRUE).entries)
                  = IdsOf(getCollectionItems(onchain, chainFiles, offchain, TRUE).entries)) ]_vars

C14_Witness ==
    /\ lastAdd.what = "upload" /\ lastAdd.err = "none" /\ lastAdd.id = "i2"
    /\ getCollectionItem(onchain, chainFiles, offchain, "i2", TRUE)
          = [kind |-> "item", id |-> "i2", file |-> [hash |-> "h2", size |-> 5],
             uploaded |-> TRUE]
    /\ getCollectionItem(onchain, chainFiles, offchain, "i1", TRUE)
          = [kind |-> "item", id |-> "i1", file |-> [hash |-> "h1", size |-> 4],
             uploaded |-> FALSE]

(* -------------------- the stage of a collection LOC --------------------- *)
\* C15: an item is added to the collection, and the content of a file is
\* uploaded, only while the LOC is a Collection LOC in the ClosedCollection
\* stage, and the step leaves the LOC in that stage
C15_OnlyWhenClosedCollection ==
    [][ onchain' # onchain \/ offchain'.files # offchain.files =>
          /\ IsCollection(locType)
          /\ Stage = "ClosedCollectionLoc"
          /\ Stage' = "ClosedCollectionLoc" ]_vars

(* ------------------------ append-only collection ------------------------- *)
\* the items a read of the whole collection returns
ListedIds(on, cf, off) == IdsOf(getCollectionItems(on, cf, off, TRUE).entries)

RECURSIVE aggregateArrays(_)
aggregateArrays(response) ==
    IF response = <<>> THEN <<>>
    ELSE Head(response).data \o aggregateArrays(Tail(response))

\* only the array that arrived first
fetchAllFirstOnly(response) ==
    IF response = <<>> THEN <<>> ELSE Head(response).data

\* LocMultiClient.fetchAll, once the responses are in
fetchAll(response) == aggregateArrays(response)

\* the requests that have settled
Settled(reqs) == {e \in Endpoints : reqs[e].state \in {"ok", "failed"}}

\* as soon as one request has settled
JoinedOnAny(reqs) == Settled(reqs) # {}

\* MultiSourceHttpClient.fetch waits for every request it sent
Joined(reqs) == \A e \in Endpoints : reqs[e].state # "sent"

\* a call that never reports the failure of its requests
AllFailedIgnored(reqs) == FALSE

\* every request that was sent failed
AllFailed(reqs) == \A e \in Endpoints : reqs[e].state \in {"idle", "failed"}

\* fetchAll is called: the request goes to the endpoint of every legal officer
\* asked for (all of them by default), all at once
FetchAll(legalOfficers) ==
    /\ fetched.state # "pending"
    /\ requests' = [e \in Endpoints |->
                       IF e \in legalOfficers
                       THEN [NoRequest EXCEPT !.state = "sent"] ELSE NoRequest]
    /\ multiResponse' = <<>>
    /\ fetched' = [NotFetched EXCEPT !.state = "pending"]
    /\ UNCHANGED <<locVars, collectionVars, valueVars, issuerVars>>

\* an endpoint answers its array of LOC requests
EndpointSucceeds(e, data) ==
    /\ requests[e].state = "sent"
    /\ requests' = [requests EXCEPT ![e] =
                       [state |-> "ok", data |-> data,
                        at |-> Cardinality(Settled(requests)) + 1]]
    /\ multiResponse' = Append(multiResponse, [endpoint |-> e, data |-> data])
    /\ UNCHANGED <<locVars, collectionVars, valueVars, issuerVars, fetched>>

\* the request to an endpoint fails
EndpointFails(e) ==
    /\ requests[e].state = "sent"
    /\ requests' = [requests EXCEPT ![e] =
                       [state |-> "failed", data |-> <<>>,
                        at |-> Cardinality(Settled(requests)) + 1]]
    /\ UNCHANGED <<locVars, collectionVars, valueVars, issuerVars, multiResponse, fetched>>

EndpointSettles(e) ==
    \/ \E data \in LocRequestsOf(e) : EndpointSucceeds(e, data)
    \/ EndpointFails(e)

\* the call ends: with an error if no endpoint answered, else with the result
FetchAllReturns ==
    /\ fetched.state = "pending"
    /\ Joined(requests)
    /\ fetched' = IF AllFailed(requests)
                  THEN [state |-> "thrown", result |-> <<>>]
                  ELSE [state |-> "returned", result |-> fetchAll(multiResponse)]
    /\ UNCHANGED <<locVars, collectionVars, valueVars, issuerVars, requests, multiResponse>>

NextFetch ==
    \/ \E legalOfficers \in SUBSET Endpoints \ {{}} : FetchAll(legalOfficers)
    \/ \E e \in Endpoints : EndpointSettles(e)
    \/ FetchAllReturns

SpecFetch == Init /\ [][NextFetch]_vars

\* every request that was sent settles, and the call that waits for them is
\* resumed once they have
SpecFetchFair ==
    /\ Init /\ [][NextFetch]_vars
    /\ \A e \in Endpoints : WF_vars(EndpointSettles(e))
    /\ WF_vars(FetchAllReturns)

\* the endpoints that answered
Succeeded == {e \in Endpoints : requests[e].state = "ok"}

\* the elements of a result that come from an endpoint, in the result's order
From(result, e) == SelectSeq(result, LAMBDA x : x.endpoint = e)

\* C17: the result of fetchAll holds, for every endpoint that answered, the
\* elements of its array in the array's order, nothing from any other
\* endpoint, and as many elements as the arrays that were answered hold
\* together; and the call ends without error when some endpoint answered
C17_ResultIsConcatenation ==
    /\ fetched.state = "returned" =>
          /\ \A e \in Endpoints :
                From(fetched.result, e) =
                   IF e \in Succeeded THEN requests[e].data ELSE <<>>
          /\ Len(fetched.result) =
                SumOver([e \in Endpoints |-> Len(requests[e].data)], Succeeded)
    /\ fetched.state \in {"returned", "thrown"} /\ Succeeded # {} =>
          fetched.state = "returned"

\* endpoints A and C answer one LOC request each, C first, and B fails
C17_Witness ==
    /\ fetched.state = "returned"
    /\ requests["A"].state = "ok" /\ Len(requests["A"].data) = 1
    /\ requests["B"].state = "failed"
    /\ requests["C"].state = "ok" /\ Len(requests["C"].data) = 1
    /\ requests["C"].at < requests["A"].at
    /\ Len(fetched.result) = 2

C19_JoinsOnAll ==
    /\ [][ fetched.state = "pending" /\ fetched'.state # "pending" =>
             /\ \A e \in Endpoints : requests[e].state # "sent"
             /\ fetched'.state = "returned" =>
                   \A e \in Succeeded :
                      From(fetched'.result, e) = requests[e].data ]_vars
    /\ (fetched.state = "pending") ~> (fetched.state # "pending")

\* the endpoint that settled last of three answered two LOC requests
C19_Witness ==
    /\ fetched.state = "returned"
    /\ requests["A"].state = "failed" /\ requests["A"].at = 1
    /\ requests["B"].state = "ok" /\ requests["B"].at = 2
    /\ requests["C"].state = "ok" /\ requests["C"].at = 3
    /\ Len(requests["C"].data) = 2

(* --------------------------- issuers of a LOC ---------------------------- *)
\* addresses of the LOC's requester and owner, of two issuers and of a
\* stranger; an account is an address with its type
Addresses == {"req", "own", "iss1", "iss2", "other"}
AccountTypes == {"Polkadot", "Ethereum"}
Accounts == [address : Addresses, type : AccountTypes]
IssuerAddresses == {"iss1", "iss2"}

\* request.requesterAddress and request.ownerAddress
RequesterAddress == [address |-> "req", type |-> "Polkadot"]
OwnerAddress == "own"

\* the identity the backend holds of an issuer (UserIdentity)
Identities == [firstName : {"", "Alice"}, lastName : {"", "Doe"}]

IdentityLocOf(address) == <<"identity", address>>

\* sequences over a set in which no element comes twice
NoRepeat(S) ==
    {q \in UNION {[1..n -> S] : n \in 0..Cardinality(S)} :
        \A i, j \in DOMAIN q : q[i] = q[j] => i = j}

\* what the ledger can hold as the selected issuers of the LOC
NodeIssuerLists ==
    {[i \in DOMAIN q |-> [address |-> q[i], identityLocId |-> IdentityLocOf(q[i])]] :
        q \in NoRepeat(IssuerAddresses)}

\* what the backend's request can list as selectedIssuers
BackendIssuerLists ==
    UNION {{[i \in DOMAIN q |-> [address |-> q[i], identity |-> ids[q[i]],
                                 identityLocId |-> IdentityLocOf(q[i])]] :
               ids \in [IssuerAddresses -> Identities]} :
           q \in NoRepeat(IssuerAddresses)}

\* the addresses of a list of issuers
AddressesOf(issuers) == {issuers[i].address : i \in DOMAIN issuers}

\* the request as the backend returns it
LocRequest(b, t, backendIssuers) ==
    [status |-> b.status, locType |-> t, requesterAddress |-> RequesterAddress,
     ownerAddress |-> OwnerAddress, selectedIssuers |-> backendIssuers]

\* a check that lets every caller pass
PrivilegedAnyone(request, chainIssuers, currentAddress) == TRUE

\* the caller is the requester, the owner or a selected issuer (1121-1123)
Privileged(request, chainIssuers, currentAddress) ==
    \/ /\ currentAddress.address = request.requesterAddress.address
       /\ currentAddress.type = request.requesterAddress.type
    \/ /\ currentAddress.address = request.ownerAddress
       /\ currentAddress.type = "Polkadot"
    \/ currentAddress.address \in AddressesOf(chainIssuers)

\* the issuers a privileged caller gets: those of the backend's request,
\* then those of the ledger that the backend does not list (1125-1147)
mergeIssuersBody(backendIssuers, chainIssuers, trustBackend, withNode) ==
    LET chainSelectedIssuers == AddressesOf(chainIssuers)
        addedIssuers == AddressesOf(backendIssuers)
        fromBackend ==
            [i \in DOMAIN backendIssuers |->
               [identityLocId |-> backendIssuers[i].identityLocId,
                address |-> backendIssuers[i].address,
                firstName |-> backendIssuers[i].identity.firstName,
                lastName |-> backendIssuers[i].identity.lastName,
                selected |-> \/ trustBackend
                             \/ backendIssuers[i].address \in chainSelectedIssuers]]
        fromNode ==
            [i \in DOMAIN chainIssuers |->
               [identityLocId |-> chainIssuers[i].identityLocId,
                address |-> chainIssuers[i].address,
                firstName |-> "", lastName |-> "", selected |-> TRUE]]
    IN fromBackend \o
       (IF withNode
        THEN SelectSeq(fromNode, LAMBDA x : x.address \notin addedIssuers)
        ELSE <<>>)

\* every issuer the backend lists counts as selected
mergeIssuersTrustingBackend(backendIssuers, chainIssuers) ==
    mergeIssuersBody(backendIssuers, chainIssuers, TRUE, TRUE)

\* the issuers the backend does not list are left out
mergeIssuersWithoutNode(backendIssuers, chainIssuers) ==
    mergeIssuersBody(backendIssuers, chainIssuers, FALSE, FALSE)

mergeIssuers(backendIssuers, chainIssuers) ==
    mergeIssuersBody(backendIssuers, chainIssuers, FALSE, TRUE)

\* AuthenticatedLocClient.getLocIssuers
getLocIssuers(request, chainIssuers, availableVerifiedIssuers, currentAddress) ==
    IF request.status # "OPEN" /\ request.status # "CLOSED"
    THEN EMPTY_LOC_ISSUERS
    ELSE
      LET withheld ==
              [i \in DOMAIN chainIssuers |->
                 [identityLocId |-> chainIssuers[i].identityLocId,
                  address |-> chainIssuers[i].address,
                  firstName |-> "", lastName |-> ""]]
      IN [verifiedIssuer |->
             /\ request.locType = "Identity" /\ request.status = "CLOSED"
             /\ request.requesterAddress.address \in availableVerifiedIssuers
             /\ request.requesterAddress.type = "Polkadot",
          issuers |->
             IF Privileged(request, chainIssuers, currentAddress)
             THEN mergeIssuers(request.selectedIssuers, chainIssuers)
             ELSE withheld]

\* a LOC request in one of three statuses, with the issuers the ledger holds
\* and the issuers the backend lists in any combination (either may be ahead)
InitIssuers ==
    /\ locType \in LocTypes
    /\ \E st \in {"REVIEW_PENDING", "OPEN", "CLOSED"} :
          /\ backend = [NoBackend EXCEPT !.status = st]
          /\ chain = [NoChain EXCEPT !.exists = st # "REVIEW_PENDING",
                                      !.closed = st = "CLOSED"]
    /\ objs = [s \in Slots |-> NoObj]
    /\ last = NoLast
    /\ offchain = NoOffchain
    /\ onchain = {}
    /\ lastAdd = NoAdd
    /\ chainFiles = NoChainFiles
    /\ lastGet = NoGet
    /\ requests = [e \in Endpoints |-> NoRequest]
    /\ multiResponse = <<>>
    /\ fetched = NotFetched
    /\ nodeIssuers \in NodeIssuerLists
    /\ selectedIssuers \in BackendIssuerLists
    /\ lastIssuers = NoIssuers
    /\ ValuesIdle

GetLocIssuers(currentAddress, availableVerifiedIssuers) ==
    /\ lastIssuers' =
          [caller |-> currentAddress,
           result |-> getLocIssuers(LocRequest(backend, locType, selectedIssuers),
                                    nodeIssuers, availableVerifiedIssuers,
                                    currentAddress)]
    /\ UNCHANGED <<locVars, collectionVars, valueVars, fetchVars, nodeIssuers, selectedIssuers>>

\* AuthenticatedLocClient.isIssuerOf
isIssuerOf(request, chainIssuers, availableVerifiedIssuers, currentAddress) ==
    LET issuers == getLocIssuers(request, chainIssuers, availableVerifiedIssuers,
                                 currentAddress).issuers IN
    \E i \in DOMAIN issuers :
       issuers[i].address = currentAddress.address /\ currentAddress.type = "Polkadot"

\* AuthenticatedLocClient.canAddRecord
canAddRecord(request, chainIssuers, availableVerifiedIssuers, currentAddress) ==
    \/ /\ currentAddress.address = request.requesterAddress.address
       /\ currentAddress.type = request.requesterAddress.type
    \/ currentAddress.address = request.ownerAddress
    \/ isIssuerOf(request, chainIssuers, availableVerifiedIssuers, currentAddress)

\* a caller asks whether it can add a tokens record to the LOC
CanAddRecord(currentAddress, availableVerifiedIssuers) ==
    /\ lastIssuers' =
          [caller |-> currentAddress,
           result |-> getLocIssuers(LocRequest(backend, locType, selectedIssuers),
                                    nodeIssuers, availableVerifiedIssuers,
                                    currentAddress),
           canAddRecord |-> canAddRecord(LocRequest(backend, locType, selectedIssuers),
                                         nodeIssuers, availableVerifiedIssuers,
                                         currentAddress)]
    /\ UNCHANGED <<locVars, collectionVars, valueVars, fetchVars, nodeIssuers, selectedIssuers>>

NextIssuers ==
    \E currentAddress \in Accounts, available \in SUBSET {"req"} :
       \/ GetLocIssuers(currentAddress, available)
       \/ CanAddRecord(currentAddress, available)

SpecIssuers == InitIssuers /\ [][NextIssuers]_vars

\* the callers that may see the identities of the issuers of the LOC
MaySeeIdentities(caller) ==
    \/ caller = RequesterAddress
    \/ caller.address = OwnerAddress
    \/ caller.address \in AddressesOf(nodeIssuers)

\* C20: a caller that is not the requester (address and account type), nor
\* the owner, nor an issuer the ledger holds as selected for the LOC, gets
\* every issuer with an empty first name and an empty last name
C20_IdentitiesWithheld ==
    lastIssuers # NoIssuers /\ ~MaySeeIdentities(lastIssuers.caller) =>
       \A i \in DOMAIN lastIssuers.result.issuers :
          /\ lastIssuers.result.issuers[i].firstName = ""
          /\ lastIssuers.result.issuers[i].lastName = ""

\* an account with the requester's address and another type asks for the
\* issuers of a closed LOC whose backend request holds the name of an issuer
\* the ledger holds as selected
C20_Witness ==
    /\ lastIssuers.caller = [address |-> "req", type |-> "Ethereum"]
    /\ backend.status = "CLOSED"
    /\ Len(lastIssuers.result.issuers) = 2
    /\ \E i \in DOMAIN selectedIssuers :
          /\ selectedIssuers[i].identity.firstName = "Alice"
          /\ selectedIssuers[i].address \in AddressesOf(nodeIssuers)

\* the last call was made by the requester, by the owner or by an issuer the
\* ledger holds as selected, on a LOC that is open or closed
PrivilegedCall ==
    /\ lastIssuers # NoIssuers
    /\ backend.status \in {"OPEN", "CLOSED"}
    /\ \/ lastIssuers.caller = RequesterAddress
       \/ lastIssuers.caller = [address |-> OwnerAddress, type |-> "Polkadot"]
       \/ lastIssuers.caller.address \in AddressesOf(nodeIssuers)

\* the entries of the last result that carry the address
EntriesOf(address) ==
    SelectSeq(lastIssuers.result.issuers, LAMBDA x : x.address = address)

\* C21 as stated: an issuer the backend lists and the ledger does not hold is
\* returned to a privileged caller with selected = true
C21_BackendOnlySelected ==
    PrivilegedCall =>
       \A a \in AddressesOf(selectedIssuers) \ AddressesOf(nodeIssuers) :
          \E i \in DOMAIN lastIssuers.result.issuers :
             /\ lastIssuers.result.issuers[i].address = a
             /\ lastIssuers.result.issuers[i].selected

\* C21: an issuer the backend lists and the ledger does not hold is returned
\* to a privileged caller once, with the backend's identity and selected =
\* false
C21_BackendOnlyNotSelected ==
    PrivilegedCall =>
       \A j \in DOMAIN selectedIssuers :
          selectedIssuers[j].address \notin AddressesOf(nodeIssuers) =>
             EntriesOf(selectedIssuers[j].address) =
                <<[identityLocId |-> selectedIssuers[j].identityLocId,
                   address |-> selectedIssuers[j].address,
                   firstName |-> selectedIssuers[j].identity.firstName,
                   lastName |-> selectedIssuers[j].identity.lastName,
                   selected |-> FALSE]>>

\* the owner reads the issuers while the backend lists iss1 and the ledger
\* holds iss2 only
C21_Witness ==
    /\ PrivilegedCall
    /\ lastIssuers.caller.address = OwnerAddress
    /\ AddressesOf(selectedIssuers) = {"iss1"}
    /\ AddressesOf(nodeIssuers) = {"iss2"}
    /\ Len(lastIssuers.result.issuers) = 2

\* C22: every issuer the ledger holds as selected is returned to a privileged
\* caller exactly once, with selected = true: with the backend's identity
\* when the backend lists it, with empty names when it does not
C22_ChainIssuersOnce ==
    PrivilegedCall =>
       \A k \in DOMAIN nodeIssuers :
          LET a == nodeIssuers[k].address
              listed == {j \in DOMAIN selectedIssuers : selectedIssuers[j].address = a}
          IN /\ Len(EntriesOf(a)) = 1
             /\ EntriesOf(a)[1].selected
             /\ EntriesOf(a)[1].identityLocId = nodeIssuers[k].identityLocId
             /\ \A j \in listed :
                   /\ EntriesOf(a)[1].firstName = selectedIssuers[j].identity.firstName
                   /\ EntriesOf(a)[1].lastName = selectedIssuers[j].identity.lastName
             /\ listed = {} =>
                   EntriesOf(a)[1].firstName = "" /\ EntriesOf(a)[1].lastName = ""

\* an issuer reads the issuers while the ledger holds iss1 and iss2 and the
\* backend lists iss2 only, with a name
C22_Witness ==
    /\ PrivilegedCall
    /\ lastIssuers.caller = [address |-> "iss1", type |-> "Polkadot"]
    /\ AddressesOf(nodeIssuers) = {"iss1", "iss2"}
    /\ \E j \in DOMAIN selectedIssuers :
          /\ selectedIssuers[j].address = "iss2"
          /\ selectedIssuers[j].identity.firstName = "Alice"
    /\ AddressesOf(selectedIssuers) = {"iss2"}
    /\ Len(lastIssuers.result.issuers) = 2

(* -------------------------- ItemFileWithContent -------------------------- *)
\* the sizes a file is declared with: not given, 0n, or a number of bytes
GivenSizes == {NoSize} \cup {SizeOf(n) : n \in Sizes \cup {0}}

\* !this._size: an undefined size and the size 0n are both falsy
Unset(size) == ~size.defined \/ size.n = 0

\* new ItemFileWithContent({ size, hashOrContent }): hashOrContent holds a
\* hash only, or content of contentSize bytes that matches the hash given with
\* it or does not
ConstructItemFile(size, hasContent, contentSize, matches) ==
    /\ ~hasContent => contentSize = 0 /\ matches
    /\ itemFile' =
          IF Unset(size) /\ ~hasContent
          THEN [NoItemFile EXCEPT !.op = "new", !.threw = TRUE]
          ELSE [state |-> "constructed", given |-> size, size |-> size,
                hasContent |-> hasContent, contentSize |-> contentSize,
                matches |-> matches, op |-> "new", threw |-> FALSE,
                read |-> NoSize]
    /\ UNCHANGED <<locVars, collectionVars, fetchVars, issuerVars, terms, token, invocation>>

\* ItemFileWithContent.finalize
Finalize ==
    /\ itemFile.state # "none"
    /\ itemFile' =
          IF ~itemFile.matches
          THEN [itemFile EXCEPT !.op = "finalize", !.threw = TRUE]
          ELSE IF itemFile.hasContent
          THEN IF Unset(itemFile.size)
               THEN [itemFile EXCEPT !.state = "finalized", !.op = "finalize",
                                     !.threw = FALSE,
                                     !.size = SizeOf(itemFile.contentSize)]
               ELSE IF itemFile.size.n # itemFile.contentSize
               THEN [itemFile EXCEPT !.op = "finalize", !.threw = TRUE]
               ELSE [itemFile EXCEPT !.state = "finalized", !.op = "finalize",
                                     !.threw = FALSE]
          ELSE [itemFile EXCEPT !.state = "finalized", !.op = "finalize",
                                !.threw = FALSE]
    /\ UNCHANGED <<locVars, collectionVars, fetchVars, issuerVars, terms, token, invocation>>

\* get size
GetSize ==
    /\ itemFile.state # "none"
    /\ itemFile' =
          IF Unset(itemFile.size)
          THEN [itemFile EXCEPT !.op = "size", !.threw = TRUE, !.read = NoSize]
          ELSE [itemFile EXCEPT !.op = "size", !.threw = FALSE,
                                !.read = itemFile.size]
    /\ UNCHANGED <<locVars, collectionVars, fetchVars, issuerVars, terms, token, invocation>>

NextFile ==
    \/ \E size \in GivenSizes, hasContent \in BOOLEAN,
          contentSize \in Sizes \cup {0}, matches \in BOOLEAN :
          ConstructItemFile(size, hasContent, contentSize, matches)
    \/ Finalize
    \/ GetSize

SpecFile == Init /\ [][NextFile]_vars

\* C23: a finalize() after a finalize() that succeeded succeeds and leaves
\* the size as it was; finalize() fails when the file has content and was
\* declared with a size other than the size of the content; and finalize()
\* leaves a size that is set as it is
C23_FinalizeIdempotent ==
    [][ itemFile'.op = "finalize" /\ itemFile.state # "none" =>
          /\ itemFile.state = "finalized" /\ itemFile.op = "finalize"
                /\ ~itemFile.threw =>
                   ~itemFile'.threw /\ itemFile'.size = itemFile.size
          /\ itemFile.hasContent /\ itemFile.given.defined
                /\ itemFile.given.n # itemFile.contentSize => itemFile'.threw
          /\ itemFile.size.defined => itemFile'.size = itemFile.size ]_vars

(* -------------------------- LogionClassification ------------------------- *)
\* LogionTransferredRightCode
LogionTransferredRightCode ==
    {"PER-PRIV", "PER-PUB", "COM-NOMOD", "COM-MOD", "EX", "NOEX", "WW", "REG",
     "NOTIME", "TIME"}

\* LogionLicenseParameters: the rights, a regional limit that is left out,
\* empty or names a country, and an expiration that is left out, empty, an
\* ISO date or another text
LogionLicenseParameters ==
    [transferredRights : SUBSET LogionTransferredRightCode,
     regionalLimit : {[defined |-> FALSE, value |-> <<>>],
                      [defined |-> TRUE, value |-> <<>>],
                      [defined |-> TRUE, value |-> <<"BE">>]},
     expiration : {[defined |-> FALSE, value |-> ""],
                   [defined |-> TRUE, value |-> ""],
                   [defined |-> TRUE, value |-> "2022-09-23"],
                   [defined |-> TRUE, value |-> "tomorrow"]}]

\* DateTime.fromISO(date).isValid
IsoDates == {"2022-09-23"}

expirationSet(params) == params.expiration.defined /\ params.expiration.value # ""

regionalLimitSet(params) ==
    params.regionalLimit.defined /\ Len(params.regionalLimit.value) > 0

\* a pair of rights that is never reported
mutuallyExclusiveSkipped(parameters, errors, code1, code2) == errors

\* Validator.mutuallyExclusive
mutuallyExclusive(parameters, errors, code1, code2) ==
    IF code1 \in parameters.transferredRights /\ code2 \in parameters.transferredRights
    THEN Append(errors, <<"Transferred rights are mutually exclusive", code1, code2>>)
    ELSE errors

\* only a condition without its right is reported
codePresentForConditionOneWay(parameters, errors, code, condition, message) ==
    IF code \notin parameters.transferredRights /\ condition
    THEN Append(errors, message) ELSE errors

\* Validator.codePresentForCondition
codePresentForCondition(parameters, errors, code, condition, message) ==
    LET first == IF code \notin parameters.transferredRights /\ condition
                 THEN Append(errors, message) ELSE errors
    IN IF code \in parameters.transferredRights /\ ~condition
       THEN Append(first, message) ELSE first

\* Validator.validIsoDate
validIsoDate(errors, date) ==
    IF date.defined /\ date.value # "" /\ date.value \notin IsoDates
    THEN Append(errors, <<"Invalid date">>) ELSE errors

\* the errors the Validator of checkValidity has collected before validOrThrow
checkValidity(parameters) ==
    LET e1 == mutuallyExclusive(parameters, <<>>, "PER-PRIV", "PER-PUB")
        e2 == mutuallyExclusive(parameters, e1, "COM-NOMOD", "COM-MOD")
        e3 == mutuallyExclusive(parameters, e2, "EX", "NOEX")
        e4 == mutuallyExclusive(parameters, e3, "REG", "WW")
        e5 == mutuallyExclusive(parameters, e4, "TIME", "NOTIME")
        e6 == codePresentForCondition(parameters, e5, "TIME", expirationSet(parameters),
                 <<"Transferred right TIME must be set if and only if expiration is set">>)
        e7 == codePresentForCondition(parameters, e6, "REG", regionalLimitSet(parameters),
                 <<"Transferred right REG must be set if and only if a regional limit is set">>)
    IN validIsoDate(e7, parameters.expiration)

\* an error that carries the first message only
validOrThrowFirstOnly(errors) ==
    [threw |-> Len(errors) > 0,
     errors |-> IF errors = <<>> THEN <<>> ELSE <<Head(errors)>>]

\* Validator.validOrThrow: the error carries the messages, joined in order
validOrThrow(errors) == [threw |-> Len(errors) > 0, errors |-> errors]

\* new LogionClassification(licenseLocId, parameters, checkValidity)
NewLogionClassification(parameters, check) ==
    /\ terms.op = "none"
    /\ terms' = IF check
                THEN [op |-> "new", parameters |-> parameters, validated |-> TRUE,
                      threw |-> validOrThrow(checkValidity(parameters)).threw,
                      errors |-> validOrThrow(checkValidity(parameters)).errors]
                ELSE [op |-> "new", parameters |-> parameters, validated |-> FALSE,
                      threw |-> FALSE, errors |-> <<>>]
    /\ UNCHANGED <<locVars, collectionVars, fetchVars, issuerVars, itemFile, token, invocation>>

\* checkValidity() on an object that was built
CheckValidity ==
    /\ terms.op # "none" /\ ~(terms.op = "new" /\ terms.threw)
    /\ terms' = [op |-> "checkValidity", parameters |-> terms.parameters,
                 validated |-> TRUE,
                 threw |-> validOrThrow(checkValidity(terms.parameters)).threw,
                 errors |-> validOrThrow(checkValidity(terms.parameters)).errors]
    /\ UNCHANGED <<locVars, collectionVars, fetchVars, issuerVars, itemFile, token, invocation>>

NextTerms ==
    \/ /\ terms.op = "none"
       /\ \E parameters \in LogionLicenseParameters, check \in BOOLEAN :
             NewLogionClassification(parameters, check)
    \/ CheckValidity

SpecTerms == Init /\ [][NextTerms]_vars

\* the pairs of rights that exclude each other, in the order of the rules
ExclusivePairs ==
    <<<<"PER-PRIV", "PER-PUB">>, <<"COM-NOMOD", "COM-MOD">>, <<"EX", "NOEX">>,
      <<"REG", "WW">>, <<"TIME", "NOTIME">>>>

HasExclusivePair(rights) ==
    \E i \in DOMAIN ExclusivePairs :
       ExclusivePairs[i][1] \in rights /\ ExclusivePairs[i][2] \in rights

\* C24: the validation of parameters whose rights hold both codes of an
\* exclusive pair fails, in the constructor and in checkValidity(), whatever
\* the other rights, the regional limit and the expiration are
C24_ExclusivePairsFail ==
    terms.validated /\ HasExclusivePair(terms.parameters.transferredRights) =>
       terms.threw

\* both private and public personal use, with the right for a limited time
\* and an expiration date
C24_Witness ==
    /\ terms.op = "new" /\ terms.validated /\ terms.threw
    /\ terms.parameters.transferredRights = {"PER-PRIV", "PER-PUB", "TIME"}
    /\ terms.parameters.expiration.value = "2022-09-23"
    /\ Len(terms.errors) = 1

\* C25: parameters pass the validation only if TIME is among the rights
\* exactly when an expiration is set and REG exactly when the regional limit
\* is not empty; they pass when neither TIME, REG, an expiration, a regional
\* limit nor an exclusive pair is there; they fail with TIME and no expiration
C25_TimeAndRegion ==
    LET p == terms.parameters
        rights == terms.parameters.transferredRights
    IN terms.validated =>
         /\ ~terms.threw =>
               /\ "TIME" \in rights <=> (p.expiration.defined /\ p.expiration.value # "")
               /\ "REG" \in rights <=> (p.regionalLimit.defined /\ p.regionalLimit.value # <<>>)
         /\ (/\ "TIME" \notin rights /\ ~(p.expiration.defined /\ p.expiration.value # "")
             /\ "REG" \notin rights /\ ~(p.regionalLimit.defined /\ p.regionalLimit.value # <<>>)
             /\ ~HasExclusivePair(rights)) => ~terms.threw
         /\ "TIME" \in rights /\ ~(p.expiration.defined /\ p.expiration.value # "") =>
               terms.threw

\* TIME with an empty expiration is rejected
C25_Witness ==
    /\ terms.validated /\ terms.threw
    /\ terms.parameters.transferredRights = {"PER-PRIV", "TIME"}
    /\ terms.parameters.expiration = [defined |-> TRUE, value |-> ""]
    /\ ~terms.parameters.regionalLimit.defined

\* the messages of the rules that the parameters violate, in rule order
RECURSIVE PairMessages(_, _)
PairMessages(rights, i) ==
    IF i > Len(ExclusivePairs) THEN <<>>
    ELSE (IF ExclusivePairs[i][1] \in rights /\ ExclusivePairs[i][2] \in rights
          THEN <<<<"Transferred rights are mutually exclusive",
                   ExclusivePairs[i][1], ExclusivePairs[i][2]>>>>
          ELSE <<>>) \o PairMessages(rights, i + 1)

ViolatedMessages(p) ==
    PairMessages(p.transferredRights, 1)
    \o (IF ("TIME" \in p.transferredRights) # (p.expiration.defined /\ p.expiration.value # "")
        THEN <<<<"Transferred right TIME must be set if and only if expiration is set">>>>
        ELSE <<>>)
    \o (IF ("REG" \in p.transferredRights) # (p.regionalLimit.defined /\ p.regionalLimit.value # <<>>)
        THEN <<<<"Transferred right REG must be set if and only if a regional limit is set">>>>
        ELSE <<>>)
    \o (IF p.expiration.defined /\ p.expiration.value \notin {"", "2022-09-23"}
        THEN <<<<"Invalid date">>>> ELSE <<>>)

\* C26: the validation reports, in one error, the message of every rule the
\* parameters violate, once and in the order of the rules, and it raises no
\* error exactly when no rule is violated
C26_AllViolationsReported ==
    terms.validated =>
       /\ terms.errors = ViolatedMessages(terms.parameters)
       /\ terms.threw <=> ViolatedMessages(terms.parameters) # <<>>

\* four rules are violated at once
C26_Witness ==
    /\ terms.validated /\ terms.threw
    /\ terms.parameters.transferredRights = {"EX", "NOEX", "REG", "WW", "TIME"}
    /\ terms.parameters.expiration.value = "tomorrow"
    /\ ~terms.parameters.regionalLimit.defined
    /\ Len(terms.errors) = 4

(* ------------------------------ validateToken ---------------------------- *)
\* TokenType, each name as its words between underscores, and two names that
\* are no TokenType
TokenType ==
    {<<"ethereum", "erc721">>, <<"ethereum", "erc1155">>, <<"goerli", "erc721">>,
     <<"goerli", "erc1155">>, <<"singular", "kusama">>, <<"polygon", "erc721">>,
     <<"polygon", "erc1155">>, <<"polygon", "mumbai", "erc721">>,
     <<"polygon", "mumbai", "erc1155">>, <<"ethereum", "erc20">>,
     <<"goerli", "erc20">>, <<"polygon", "erc20">>, <<"polygon", "mumbai", "erc20">>,
     <<"owner">>, <<"multiversx", "devnet", "esdt">>,
     <<"multiversx", "testnet", "esdt">>, <<"multiversx", "esdt">>}

OtherTypes == {<<"solana", "spl">>, <<"astar", "psp34">>}

\* type.includes(word) and type.startsWith(word), for a word of the name
includes(type, word) == \E i \in DOMAIN type : type[i] = word
startsWith(type, word) == type # <<>> /\ type[1] = word

\* characters of token ids: a digit, an upper-case letter, a lower-case
\* hexadecimal letter, another lower-case letter, the dash, the underscore
\* and a character that is none of these
Chars == {"0", "Z", "a", "g", "-", "_", "{"}

\* the sequences over S of the lengths in L
SeqsOf(S, L) == UNION {[1..n -> S] : n \in L}

\* the values a field of a JSON object can hold
JsonValues ==
    {JsonUndefined,
     [type |-> "null", text |-> "", n |-> 0],
     [type |-> "string", text |-> "", n |-> 0],
     [type |-> "string", text |-> "0xabc", n |-> 0],
     [type |-> "number", text |-> "", n |-> 0],
     [type |-> "number", text |-> "", n |-> 5],
     [type |-> "object", text |-> "", n |-> 0]}

\* !value
Falsy(v) ==
    \/ v.type \in {"undefined", "null"}
    \/ v.type = "string" /\ v.text = ""
    \/ v.type = "number" /\ v.n = 0

\* token ids that are JSON texts: objects with any 'contract' and 'id', and
\* the texts of null, of a number and of a string
JsonIds ==
    {[chars |-> <<"{">>, address |-> "none",
      json |-> [kind |-> "object", contract |-> c, id |-> i]] :
        c \in JsonValues, i \in JsonValues}
    \cup {[chars |-> <<"g", "g", "g", "g">>, address |-> "none",
           json |-> [NotJson EXCEPT !.kind = "null"]],
          [chars |-> <<"0">>, address |-> "none",
           json |-> [NotJson EXCEPT !.kind = "number"]],
          [chars |-> <<"{", "g", "{">>, address |-> "none",
           json |-> [NotJson EXCEPT !.kind = "string"]]}

\* token ids that are addresses: 0x and hexadecimal digits (Ethereum), erd1
\* and lower-case letters and digits (MultiversX), letters and digits
\* (Polkadot)
AddressIds ==
    {[chars |-> <<"0", "g", "a", "0">>, address |-> "ethereum", json |-> NotJson],
     [chars |-> <<"a", "g", "0", "g">>, address |-> "multiversx", json |-> NotJson],
     [chars |-> <<"0", "Z", "g", "a">>, address |-> "polkadot", json |-> NotJson]}

\* other token ids: short texts of any characters, and texts made like an
\* ESDT id, which has letters and digits, a dash, six hexadecimal digits and
\* possibly a dash and more hexadecimal digits
TextIds ==
    {[chars |-> c, address |-> "none", json |-> NotJson] :
        c \in SeqsOf(Chars, 0..2)
           \cup {p \o <<"-">> \o m \o x :
                   p \in SeqsOf({"0", "Z", "a"}, 0..1) \cup {<<"Z", "0">>},
                   m \in SeqsOf({"0", "a"}, {6})
                          \cup {<<"Z", "0", "0", "0", "0", "0">>,
                                <<"a", "0", "a", "0", "a">>,
                                <<"a", "0", "a", "0", "a", "0", "a">>},
                   x \in {<<>>, <<"-">>, <<"-", "a">>, <<"-", "a", "0">>,
                          <<"-", "Z">>, <<"-", "a", "-", "a">>}}}

TokenIds == JsonIds \cup AddressIds \cup TextIds

\* every character of the text is one of the set
AllIn(text, S) == \A i \in DOMAIN text : text[i] \in S

\* a test that takes any text for a Singular Kusama id
isSingularKusamaIdAnyText(tokenId) == TRUE

\* /^[0-9a-zA-Z\-_]+$/
isSingularKusamaId(tokenId) ==
    Len(tokenId) >= 1 /\ AllIn(tokenId, {"0", "Z", "a", "g", "-", "_"})

\* /^[0-9A-Z]+-[0-9a-f]{6}(-[0-9a-f]+)?$/
isMultiversxESDTId(tokenId) ==
    \E d \in DOMAIN tokenId :
       /\ d >= 2 /\ tokenId[d] = "-"
       /\ AllIn(SubSeq(tokenId, 1, d - 1), {"0", "Z"})
       /\ Len(tokenId) >= d + 6
       /\ AllIn(SubSeq(tokenId, d + 1, d + 6), {"0", "a"})
       /\ \/ Len(tokenId) = d + 6
          \/ /\ Len(tokenId) >= d + 8
             /\ tokenId[d + 7] = "-"
             /\ AllIn(SubSeq(tokenId, d + 8, Len(tokenId)), {"0", "a"})

\* a TokenValidationResult, or the error thrown instead of one
ValidToken == [valid |-> TRUE, error |-> "none", threw |-> FALSE]
InvalidToken(error) == [valid |-> FALSE, error |-> error, threw |-> FALSE]
TypeError == [valid |-> FALSE, error |-> "TypeError", threw |-> TRUE]

\* validateErcToken: the result
validateErcToken(id) ==
    IF id.json.kind = "invalid" THEN InvalidToken("token ID is not a valid JSON object")
    ELSE IF id.json.kind = "null" THEN TypeError
    ELSE IF Falsy(id.json.contract)
    THEN InvalidToken("token ID is missing the 'contract' field")
    ELSE IF id.json.contract.type # "string"
    THEN InvalidToken("token ID's 'contract' field is not a string")
    ELSE ValidToken

isErcNft(type) == includes(type, "erc721") \/ includes(type, "erc1155")

\* validateToken
validateToken(type, id) ==
    IF isErcNft(type)
    THEN IF validateErcToken(id).valid
         THEN IF Falsy(id.json.id)
              THEN InvalidToken("token ID is missing the 'id' field")
              ELSE IF id.json.id.type # "string"
              THEN InvalidToken("token ID's 'id' field is not a string")
              ELSE ValidToken
         ELSE validateErcToken(id)
    ELSE IF includes(type, "erc20") THEN validateErcToken(id)
    ELSE IF type = <<"owner">>
    THEN IF id.address \in {"ethereum", "multiversx", "polkadot"}
         THEN ValidToken
         ELSE InvalidToken("token ID must be a valid Ethereum, Polkadot or MultiversX address")
    ELSE IF type = <<"singular", "kusama">>
    THEN IF isSingularKusamaId(id.chars)
         THEN ValidToken ELSE InvalidToken("token ID must be a valid Singular Kusama ID")
    ELSE IF startsWith(type, "multiversx")
    THEN IF isMultiversxESDTId(id.chars)
         THEN ValidToken ELSE InvalidToken("token ID must be a valid MultiversX ESDT ID")
    ELSE InvalidToken("unsupported token type")

ValidateToken(type, id) ==
    /\ token.op = "none"
    /\ token' = [op |-> "validateToken", type |-> type, id |-> id,
                 valid |-> validateToken(type, id).valid,
                 error |-> validateToken(type, id).error,
                 threw |-> validateToken(type, id).threw,
                 issuance |-> 0, message |-> <<>>]
    /\ UNCHANGED <<locVars, collectionVars, fetchVars, issuerVars, itemFile, terms, invocation>>

\* the error of an invalid token, were the reason put in the message whenever
\* there is one
invalidTokenErrorWithReason(result) ==
    IF result.error # "none"
    THEN <<"Given token definition is invalid: ", result.error>>
    ELSE <<"Given token definition is invalid">>

\* validTokenOrThrow, for a result that is not valid: the message of the error
\* thrown; result.error is tested for truthiness, and the message names it
\* in the branch where it is falsy
invalidTokenError(result) ==
    IF result.error \notin {"none", ""}
    THEN <<"Given token definition is invalid">>
    ELSE <<"Given token definition is invalid: ",
           IF result.error = "none" THEN "undefined" ELSE result.error>>

\* the issuances given with a token: the issuance is read only when the token
\* is valid
IssuancesOf(type, id) ==
    IF validateToken(type, id).valid THEN {0, NumValues} ELSE {NumValues}

\* validTokenOrThrow: the message of the error thrown, none when the token is
\* accepted; an error thrown by validateToken leaves as it is
ValidTokenOrThrow(type, id, issuance) ==
    /\ token.op = "none"
    /\ \E result \in {validateToken(type, id)} :
          token' = [op |-> "validTokenOrThrow", type |-> type, id |-> id,
                    valid |-> result.valid, error |-> result.error,
                    issuance |-> issuance,
                    threw |-> result.threw \/ ~result.valid \/ issuance < 1,
                    message |-> IF result.threw THEN <<result.error>>
                                ELSE IF ~result.valid THEN invalidTokenError(result)
                                ELSE IF issuance < 1
                                THEN <<"Token must have an issuance >= 1">>
                                ELSE <<>>]
    /\ UNCHANGED <<locVars, collectionVars, fetchVars, issuerVars, itemFile, terms, invocation>>

NextToken ==
    /\ token.op = "none"
    /\ \E type \in TokenType \cup OtherTypes, id \in TokenIds :
          \/ ValidateToken(type, id)
          \/ \E issuance \in IssuancesOf(type, id) :
                ValidTokenOrThrow(type, id, issuance)

SpecToken == Init /\ [][NextToken]_vars

\* a JSON object's field holds a string that is not empty
NonEmptyString(v) == v.type = "string" /\ v.text # ""

\* the text has the format of an ESDT id: its parts between dashes are one
\* part of digits and upper-case letters, one of six hexadecimal digits, and
\* possibly one more of hexadecimal digits
EsdtFormat(text) ==
    \E a \in SeqsOf({"0", "Z"}, 1..2), b \in SeqsOf({"0", "a"}, {6}) :
       \/ text = a \o <<"-">> \o b
       \/ \E c \in SeqsOf({"0", "a"}, 1..2) : text = a \o <<"-">> \o b \o <<"-">> \o c

\* C27: validateToken reports the token valid exactly when: for an ERC-721 or
\* ERC-1155 type, the id is a JSON object whose 'contract' and 'id' are
\* strings that are not empty; for an ERC-20 type, a JSON object whose
\* 'contract' is such a string; for 'owner', an Ethereum, MultiversX or
\* Polkadot address; for 'singular_kusama' and the MultiversX types, a text
\* in the format of the type; no other type is valid
C27_ValidByType ==
    token.op = "validateToken" =>
       (token.valid <=>
          \/ /\ token.type \in {<<"ethereum", "erc721">>, <<"ethereum", "erc1155">>,
                                 <<"goerli", "erc721">>, <<"goerli", "erc1155">>,
                                 <<"polygon", "erc721">>, <<"polygon", "erc1155">>,
                                 <<"polygon", "mumbai", "erc721">>,
                                 <<"polygon", "mumbai", "erc1155">>}
             /\ token.id.json.kind = "object"
             /\ NonEmptyString(token.id.json.contract)
             /\ NonEmptyString(token.id.json.id)
          \/ /\ token.type \in {<<"ethereum", "erc20">>, <<"goerli", "erc20">>,
                                 <<"polygon", "erc20">>, <<"polygon", "mumbai", "erc20">>}
             /\ token.id.json.kind = "object"
             /\ NonEmptyString(token.id.json.contract)
          \/ /\ token.type = <<"owner">>
             /\ token.id.address # "none"
          \/ /\ token.type = <<"singular", "kusama">>
             /\ token.id.chars # <<>>
             /\ \A i \in DOMAIN token.id.chars : token.id.chars[i] # "{"
          \/ /\ token.type \in {<<"multiversx", "devnet", "esdt">>,
                                 <<"multiversx", "testnet", "esdt">>,
                                 <<"multiversx", "esdt">>}
             /\ EsdtFormat(token.id.chars))

\* an ESDT id with its third part is valid for a MultiversX type
C27_Witness ==
    /\ token.op = "validateToken" /\ token.valid
    /\ token.type = <<"multiversx", "devnet", "esdt">>
    /\ token.id.chars = <<"Z", "0", "-", "a", "0", "a", "0", "a", "0", "-", "a">>

(* ------- the calls a client method makes (LocClient.ts, 570-1712) ------- *)
\* a call to the backend; guarded when the method catches its failure and
\* throws newBackendError(e)
backendCall(guarded) ==
    [call |-> "backend", to |-> "backend", guarded |-> guarded, onFailure |-> <<>>]

\* a guarded call to one of the endpoints of items and records: "submit" (POST
\* of the public data), "cancel" (its DELETE) or "upload" (POST of a file)
entryCall(endpoint) ==
    [call |-> "backend", to |-> endpoint, guarded |-> TRUE, onFailure |-> <<>>]

\* a submission that is tried once more when it fails
ledgerCallRetrying(onFailure) ==
    [call |-> "signAndSend", to |-> "ledger", guarded |-> FALSE,
     onFailure |-> <<[call |-> "signAndSend", to |-> "ledger", guarded |-> FALSE,
                      onFailure |-> <<>>]>> \o onFailure]

\* signer.signAndSend; onFailure is what the method's catch block runs before
\* it throws the signer's error again
ledgerCall(onFailure) ==
    [call |-> "signAndSend", to |-> "ledger", guarded |-> FALSE, onFailure |-> onFailure]

\* throw new Error(...)
throwError == [call |-> "throw", to |-> "none", guarded |-> FALSE, onFailure |-> <<>>]

Clients == {"PublicLocClient", "AuthenticatedLocClient"}

\* the queries both clients inherit from LocClient
SharedQueries == {"getCollectionItem", "getCollectionItems", "getTokensRecord",
                  "getTokensRecords"}

PublicOps == {"getLocRequest", "getDeliveries", "checkDelivery",
              "getTokensRecordDeliveries", "checkTokensRecordDelivery"}

\* methods of AuthenticatedLocClient that make one guarded backend call
GuardedOps == {"createLocRequest", "getLocRequest", "addMetadata", "deleteMetadata",
               "addFile", "deleteFile", "addLink", "deleteLink", "uploadItemFile",
               "getDeliveries", "checkDelivery", "submit", "cancel", "rework",
               "uploadTokensRecordFile", "checkTokensRecordDelivery",
               "requestFileReview", "reviewFile", "requestMetadataReview",
               "reviewMetadata", "rejectLoc", "acceptCollectionLoc",
               "getLegalOfficerVerifiedIssuers",
               "setCollectionFileRestrictedDelivery"}

\* methods that submit to the ledger and then tell the backend
LedgerThenBackendOps == {"publishFile", "acknowledgeFile", "publishMetadata",
                         "acknowledgeMetadata", "publishLink", "openTransactionLoc",
                         "openIdentityLoc", "openCollectionLoc", "close", "voidLoc"}

\* methods that only submit to the ledger
LedgerOnlyOps == {"openLogionTransactionLoc", "openLogionIdentityLoc",
                  "nominateIssuer", "dismissIssuer", "setIssuerSelection"}

OtherOps == {"acceptTransactionLoc", "acceptIdentityLoc", "addCollectionItem",
                 "addTokensRecord", "requestVote", "createSofRequest",
                 "getTokensRecordDeliveries"}

AuthenticatedOps ==
    GuardedOps \cup LedgerThenBackendOps \cup LedgerOnlyOps \cup OtherOps

OpsOfClient(client) ==
    SharedQueries \cup (IF client = "PublicLocClient" THEN PublicOps ELSE AuthenticatedOps)

\* what a caller passes, as far as it decides which calls are made
InvocationParameters ==
    [requesterAccount : {"none", "Polkadot", "Ethereum"},
     requesterLoc : BOOLEAN, sponsorshipId : BOOLEAN,
     files : 0..NumValues,     \* files that carry their content
     hashFiles : BOOLEAN,      \* a file known by its hash only is given as well
     restrictedDelivery : {"undefined", "true", "false"},
     itemToken : BOOLEAN,      \* a token is given
     valid : BOOLEAN,          \* sizes, token and terms pass their checks
     onchain : BOOLEAN,        \* the node has the item or record asked for
     voteCreated : BOOLEAN]    \* the result holds a VoteCreated event

\* the parameters a caller leaves out
DefaultParameters ==
    [requesterAccount |-> "none", requesterLoc |-> FALSE, sponsorshipId |-> FALSE,
     files |-> 0, hashFiles |-> FALSE, restrictedDelivery |-> "undefined",
     itemToken |-> FALSE, valid |-> TRUE, onchain |-> TRUE, voteCreated |-> TRUE]

\* the parameters a method looks at
ParametersUsed(op) ==
    CASE op = "acceptTransactionLoc" -> {"requesterAccount", "requesterLoc"}
      [] op = "acceptIdentityLoc" -> {"requesterAccount", "sponsorshipId"}
      [] op = "addCollectionItem" ->
            {"files", "hashFiles", "restrictedDelivery", "itemToken", "valid"}
      [] op = "addTokensRecord" -> {"files", "hashFiles", "valid"}
      [] op = "requestVote" -> {"voteCreated"}
      [] op \in {"getCollectionItem", "getTokensRecord"} -> {"onchain"}
      [] OTHER -> {}

\* the calls of a method that differ for the method
ParametersOf(op) ==
    {p \in InvocationParameters :
        \A f \in DOMAIN p : f \notin ParametersUsed(op) => p[f] = DefaultParameters[f]}

\* restrictedDelivery !== undefined ? restrictedDelivery : false
booleanRestrictedDelivery(restrictedDelivery) == restrictedDelivery = "true"

\* a check of restricted delivery that asks for a token only
restrictedDeliveryRefusedWithoutTokenOnly(p) ==
    booleanRestrictedDelivery(p.restrictedDelivery) /\ ~p.itemToken

\* booleanRestrictedDelivery && (chainItemFiles.length === 0 || !itemToken)
restrictedDeliveryRefused(p) ==
    /\ booleanRestrictedDelivery(p.restrictedDelivery)
    /\ ((p.files = 0 /\ ~p.hashFiles) \/ ~p.itemToken)

\* the files of an item, uploaded one after the other
uploads(n) == [i \in 1..n |-> entryCall("upload")]

\* an item or record whose files are uploaded before the ledger is asked
addEntryUploadingFirst(p) ==
    IF ~p.valid THEN <<throwError>>
    ELSE <<entryCall("submit")>> \o uploads(p.files) \o <<ledgerCall(<<entryCall("cancel")>>)>>

\* an item or record: backend first, ledger next with the backend's entry
\* cancelled when the ledger fails, uploads last
addEntry(p) ==
    IF ~p.valid THEN <<throwError>>
    ELSE <<entryCall("submit"), ledgerCall(<<entryCall("cancel")>>)>> \o uploads(p.files)

acceptTransactionLocBody(p) ==
    IF p.requesterAccount # "none" THEN <<backendCall(TRUE)>>
    ELSE IF p.requesterLoc THEN <<ledgerCall(<<>>), backendCall(TRUE)>>
    ELSE <<throwError>>

acceptIdentityLocBody(p) ==
    IF p.requesterAccount = "Polkadot" THEN <<backendCall(TRUE)>>
    ELSE IF p.requesterAccount # "none"
    THEN IF ~p.sponsorshipId THEN <<throwError>>
         ELSE <<ledgerCall(<<>>), backendCall(TRUE)>>
    ELSE <<ledgerCall(<<>>), backendCall(TRUE)>>

\* the body of a method: the calls it awaits, in order
Body(client, op, p) ==
    CASE op \in {"getCollectionItem", "getTokensRecord"} ->
            IF p.onchain THEN <<backendCall(TRUE)>> ELSE <<>>
      [] op \in {"getCollectionItems", "getTokensRecords"} -> <<backendCall(TRUE)>>
      [] client = "PublicLocClient" ->
            <<backendCall(op = "checkTokensRecordDelivery")>>
      [] op \in {"createSofRequest", "getTokensRecordDeliveries"} -> <<backendCall(FALSE)>>
      [] op \in GuardedOps -> <<backendCall(TRUE)>>
      [] op \in LedgerThenBackendOps -> <<ledgerCall(<<>>), backendCall(TRUE)>>
      [] op \in LedgerOnlyOps -> <<ledgerCall(<<>>)>>
      [] op = "requestVote" ->
            <<ledgerCall(<<>>)>> \o (IF p.voteCreated THEN <<>> ELSE <<throwError>>)
      [] op = "acceptTransactionLoc" -> acceptTransactionLocBody(p)
      [] op = "acceptIdentityLoc" -> acceptIdentityLocBody(p)
      [] op = "addCollectionItem" ->
            IF restrictedDeliveryRefused(p) THEN <<throwError>> ELSE addEntry(p)
      [] op = "addTokensRecord" -> addEntry(p)

\* what the caller catches when a backend call ends with a non-2xx response:
\* axios throws, and only a guarded call turns that into a BackendError
newBackendError(failed) ==
    IF failed.guarded THEN "BackendError" ELSE "AxiosError"

\* a method that goes on when its submission to the ledger failed
RECURSIVE AwaitDespiteLedger(_, _)
AwaitDespiteLedger(body, succeeds) ==
    IF body = <<>> THEN [calls |-> <<>>, to |-> <<>>, error |-> "none"]
    ELSE LET step == Head(body) IN
         IF step.call = "throw" THEN [calls |-> <<>>, to |-> <<>>, error |-> "Error"]
         ELSE IF Head(succeeds) \/ step.call = "signAndSend"
         THEN LET rest == AwaitDespiteLedger(Tail(body), Tail(succeeds)) IN
              [calls |-> <<step.call>> \o rest.calls, to |-> <<step.to>> \o rest.to,
               error |-> rest.error]
         ELSE [calls |-> <<step.call>>, to |-> <<step.to>>,
               error |-> newBackendError(step)]

\* runs the calls in order; succeeds[k] tells whether the k-th call made
\* succeeds; the first failure ends the method
RECURSIVE Await(_, _)
Await(body, succeeds) ==
    IF body = <<>> THEN [calls |-> <<>>, to |-> <<>>, error |-> "none"]
    ELSE LET step == Head(body) IN
         IF step.call = "throw" THEN [calls |-> <<>>, to |-> <<>>, error |-> "Error"]
         ELSE IF Head(succeeds)
         THEN LET rest == Await(Tail(body), Tail(succeeds)) IN
              [calls |-> <<step.call>> \o rest.calls, to |-> <<step.to>> \o rest.to,
               error |-> rest.error]
         ELSE IF step.call = "signAndSend"
         THEN LET caught == Await(step.onFailure, Tail(succeeds)) IN
              [calls |-> <<step.call>> \o caught.calls, to |-> <<step.to>> \o caught.to,
               error |-> IF caught.error = "none" THEN "SignerError" ELSE caught.error]
         ELSE [calls |-> <<step.call>>, to |-> <<step.to>>,
               error |-> newBackendError(step)]

\* a caller invokes a method of a client; each call the method makes succeeds or
\* fails
Invoke(client, op, p, succeeds) ==
    /\ invocation.op = "none"
    /\ \E r \in {Await(Body(client, op, p), succeeds)} :
          invocation' = [client |-> client, op |-> op, parameters |-> p,
                         calls |-> r.calls, to |-> r.to, error |-> r.error,
                         failed |-> {k \in DOMAIN r.calls : ~succeeds[k]}]
    /\ UNCHANGED <<locVars, collectionVars, fetchVars, issuerVars, itemFile, terms, token>>

NextClient ==
    /\ invocation.op = "none"
    /\ \E client \in Clients : \E op \in OpsOfClient(client) :
       \E p \in ParametersOf(op) : \E succeeds \in [1..(NumValues + 2) -> BOOLEAN] :
          Invoke(client, op, p, succeeds)

SpecClient == Init /\ [][NextClient]_vars

\* C28: a method of the LOC clients whose backend call ends with a non-2xx
\* response throws a BackendError, never the transport's own error
C28_BackendErrorAlways ==
    (/\ invocation.op # "none"
     /\ Len(invocation.calls) \in invocation.failed
     /\ invocation.calls[Len(invocation.calls)] = "backend")
      => invocation.error = "BackendError"

\* the positions of the submissions to the ledger among the calls made
Submissions == {k \in DOMAIN invocation.calls : invocation.calls[k] = "signAndSend"}

\* C29: a method that submits to the ledger calls signAndSend at most once per
\* invocation, and makes no submission after one that failed
C29_SubmitsAtMostOnce ==
    invocation.op # "none" =>
       /\ Cardinality(Submissions) <= 1
       /\ \A k \in Submissions \cap invocation.failed :
             \A j \in Submissions : j <= k

\* addCollectionItem whose submission failed: the backend's entry was cancelled
\* and nothing was submitted again
C29_Witness ==
    /\ invocation.op = "addCollectionItem"
    /\ invocation.calls = <<"backend", "signAndSend", "backend">>
    /\ invocation.failed = {2}
    /\ invocation.error = "SignerError"

(* ------------------------- closing a LOC (Loc.ts) ------------------------ *)
\* the legal officer's close was the last call recorded and it returned a state
ClosedByLegalOfficer(l) ==
    l.actor = "legalOfficer" /\ l.op = "close" /\ l.outcome = "ok"

\* the class of a closed LOC of type t
ClosedKind(t) == IF t = "Collection" THEN "ClosedCollectionLoc" ELSE "ClosedLoc"

\* C30: the state the legal officer's close returns is a ClosedCollectionLoc
\* exactly when the LOC is a Collection LOC and a ClosedLoc otherwise, and the
\* requester's refresh that follows returns a state of the same class
C30_CloseKind ==
    [][ /\ (ClosedByLegalOfficer(last') /\ ~ClosedByLegalOfficer(last) =>
              /\ objs[<<"legalOfficer", 1>>].kind = "OpenLoc"
              /\ objs'[<<"legalOfficer", 1>>].kind = ClosedKind(locType))
        /\ (ClosedByLegalOfficer(last) /\ last'.actor = "requester"
              /\ last'.op = "refresh" /\ last'.outcome = "ok" =>
              objs'[<<"requester", 1>>].kind = objs[<<"legalOfficer", 1>>].kind) ]_vars

\* a Collection LOC closed by the legal officer, then refreshed by the requester
C30_Witness ==
    /\ locType = "Collection"
    /\ last.actor = "requester" /\ last.op = "refresh" /\ last.outcome = "ok"
    /\ objs[<<"legalOfficer", 1>>].kind = "ClosedCollectionLoc"
    /\ objs[<<"requester", 1>>].kind = "ClosedCollectionLoc"
    /\ ~chain.void

(* ------ typed terms-and-conditions elements (license/Factory.ts) ------- *)
\* the type values of a merged element: the three known ones, the tag the
\* documentation gives to Creative Commons, and one that no class declares
ElementTypes == {"logion_classification", "CC4.0", "specific_license",
                 "creative_commons", "unknown_license"}

\* the details of an element: a text JSON.parse rejects, the JSON null, or a
\* JSON object with or without transferredRights
ElementDetails ==
    {[kind |-> "invalid", rights |-> FALSE, parameters |-> NoParameters],
     [kind |-> "null", rights |-> FALSE, parameters |-> NoParameters]}
    \cup {[kind |-> "object", rights |-> q.transferredRights # {}, parameters |-> q] :
            q \in {q \in LogionLicenseParameters :
                     q.transferredRights \subseteq {"PER-PRIV", "PER-PUB", "TIME", "REG"}}}
    \cup {[kind |-> "object", rights |-> TRUE, parameters |-> q] :
            q \in {q \in LogionLicenseParameters : q.transferredRights = {}}}

\* LogionClassification.fromDetails(licenseLocId, details, checkValidity)
fromDetails(details, check) ==
    IF details.kind = "invalid"
    THEN [class |-> "none", threw |-> TRUE, errors |-> <<"SyntaxError">>]
    ELSE IF details.kind = "null"
    THEN [class |-> "none", threw |-> TRUE, errors |-> <<"TypeError">>]
    ELSE LET r == IF check THEN validOrThrow(checkValidity(details.parameters))
                  ELSE [threw |-> FALSE, errors |-> <<>>] IN
         [class |-> IF r.threw THEN "none" ELSE "LogionClassification",
          threw |-> r.threw, errors |-> r.errors]

\* a conversion that knows the three declared types only
newTermsAndConditionsElementStrict(type, details, check, accepted) ==
    CASE type = "logion_classification" -> fromDetails(details, check)
      [] type = "CC4.0" ->
           [class |-> IF accepted THEN "CreativeCommons" ELSE "none",
            threw |-> ~accepted, errors |-> <<>>]
      [] type = "specific_license" ->
           [class |-> "SpecificLicense", threw |-> FALSE, errors |-> <<>>]
      [] OTHER -> [class |-> "none", threw |-> TRUE, errors |-> <<"Error">>]

\* MergedTermsAndConditionsElement.toTermsAndConditionsElement: the class is
\* chosen by the type value; accepted tells whether CreativeCommons takes the
\* details for one of its codes
newTermsAndConditionsElement(type, details, check, accepted) ==
    CASE type = "logion_classification" -> fromDetails(details, check)
      [] type = "CC4.0" ->
           [class |-> IF accepted THEN "CreativeCommons" ELSE "none",
            threw |-> ~accepted, errors |-> <<>>]
      [] OTHER -> [class |-> "SpecificLicense", threw |-> FALSE, errors |-> <<>>]

\* a merged element read from the ledger and the backend is converted
ToTermsAndConditionsElement(type, details, check, accepted) ==
    /\ terms.op = "none"
    /\ \E r \in {newTermsAndConditionsElement(type, details, check, accepted)} :
          terms' = [op |-> "toTermsAndConditionsElement", type |-> type,
                    details |-> details, parameters |-> details.parameters,
                    validated |-> check, class |-> r.class, threw |-> r.threw,
                    errors |-> r.errors]
    /\ UNCHANGED <<locVars, collectionVars, fetchVars, issuerVars, itemFile, token, invocation>>

NextElement ==
    /\ terms.op = "none"
    /\ \E type \in ElementTypes, details \in ElementDetails :
       \E check \in BOOLEAN, accepted \in BOOLEAN :
          ToTermsAndConditionsElement(type, details, check, accepted)

SpecElement == Init /\ [][NextElement]_vars

\* the class declared for a type value
ClassOf(type) ==
    CASE type = "logion_classification" -> "LogionClassification"
      [] type = "CC4.0" -> "CreativeCommons"
      [] OTHER -> "SpecificLicense"

\* C31: the element a conversion returns has the class of its type value, a
\* SpecificLicense for every type value that is not declared, and a conversion
\* of an undeclared type never fails
C31_ClassByType ==
    terms.op = "toTermsAndConditionsElement" =>
       /\ (~terms.threw => terms.class = ClassOf(terms.type))
       /\ (terms.type \notin {"logion_classification", "CC4.0"} =>
              ~terms.threw /\ terms.class = "SpecificLicense")

\* an element of an undeclared type was converted into a SpecificLicense
C31_Witness ==
    /\ terms.op = "toTermsAndConditionsElement"
    /\ terms.type = "unknown_license"
    /\ terms.class = "SpecificLicense"

(* ------------------------------ refresh --------------------------------- *)
\* the last call recorded is a refresh that returned a state
Refreshed == last.op = "refresh" /\ last.outcome = "ok"

\* the LOC is void, closed, for the backend or the ledger
IsVoid == chain.void \/ backend.void
IsClosed == chain.closed \/ backend.status = "CLOSED"

\* C32: the state a refresh returns has the class that the status of the LOC at
\* the backend and on the ledger implies when refresh is called: the class of
\* the request's status before the LOC is open, then OpenLoc, the closed class
\* of the LOC's type once it is closed, the voided class once it is void
C32_RefreshedKind ==
    Refreshed =>
       LET kind == objs[<<last.actor, 1>>].kind IN
       /\ (backend.status = "DRAFT" => kind = "DraftRequest")
       /\ (backend.status = "REVIEW_PENDING" => kind = "PendingRequest")
       /\ (backend.status = "REVIEW_REJECTED" => kind = "RejectedRequest")
       /\ (backend.status = "REVIEW_ACCEPTED" => kind = "AcceptedRequest")
       /\ (backend.status \in {"OPEN", "CLOSED"} =>
             kind = IF IsVoid
                    THEN (IF locType = "Collection" THEN "VoidedCollectionLoc"
                          ELSE "VoidedLoc")
                    ELSE IF IsClosed THEN ClosedKind(locType) ELSE "OpenLoc")

\* the requester's refresh shows the legal officer's rejection
C32_Witness ==
    /\ Refreshed /\ last.actor = "requester"
    /\ backend.status = "REVIEW_REJECTED"
    /\ objs[<<"requester", 1>>].kind = "RejectedRequest"
    /\ objs[<<"legalOfficer", 1>>].kind = "RejectedRequest"

(* ------------------- ledger first, backend second ----------------------- *)
\* C33: publishFile, publishMetadata, publishLink, acknowledgeFile,
\* acknowledgeMetadata, openTransactionLoc, openIdentityLoc, openCollectionLoc,
\* close and voidLoc call the backend only after their submission to the
\* ledger succeeded, and make no backend call when the submission failed
C33_BackendAfterLedger ==
    invocation.op \in {"publishFile", "publishMetadata", "publishLink",
                       "acknowledgeFile", "acknowledgeMetadata",
                       "openTransactionLoc", "openIdentityLoc", "openCollectionLoc",
                       "close", "voidLoc"} =>
       /\ \A k \in DOMAIN invocation.calls :
             invocation.calls[k] = "backend" =>
                \E j \in 1..(k - 1) :
                   invocation.calls[j] = "signAndSend" /\ j \notin invocation.failed
       /\ (Submissions \cap invocation.failed # {} =>
              \A k \in DOMAIN invocation.calls : invocation.calls[k] # "backend")

\* a close whose submission to the ledger failed: the backend was not called
C33_Witness ==
    /\ invocation.op = "close"
    /\ invocation.calls = <<"signAndSend">>
    /\ invocation.failed = {1}
    /\ invocation.error = "SignerError"

(* --------------- errors of addCollectionItem, addTokensRecord ----------- *)
\* C34: when the submission of addCollectionItem or addTokensRecord to the
\* ledger fails, the caller gets the error of the submission, whether the
\* deletion of the announced entry succeeds or fails
C34_LedgerErrorSurfaced ==
    (/\ invocation.op \in {"addCollectionItem", "addTokensRecord"}
     /\ Submissions \cap invocation.failed # {})
      => invocation.error = "SignerError"

\* the calls of the last invocation that failed while uploading a file
FailedUploads == {k \in invocation.failed : invocation.to[k] = "upload"}

UploadFailureLeavesItem ==
    (lastAdd.what = "item" /\ lastAdd.announced /\ ~lastAdd.ledgerFailed
       /\ lastAdd.err = "backend") =>
       /\ lastAdd.id \in onchain
       /\ lastAdd.id \in offchain.data
       /\ lastAdd.id \notin offchain.files

(* ------------------------------ canAddRecord ---------------------------- *)
\* the last call was canAddRecord
AskedCanAddRecord == "canAddRecord" \in DOMAIN lastIssuers

\* C36: canAddRecord answers true exactly for the requester (address and
\* account type), for the owner's address, and for a Polkadot account that the
\* ledger holds as selected issuer of an OPEN or CLOSED LOC; an account that
\* only the backend lists as issuer gets false
C36_CanAddRecord ==
    AskedCanAddRecord =>
       LET caller == lastIssuers.caller IN
       /\ lastIssuers.canAddRecord <=>
             \/ caller = RequesterAddress
             \/ caller.address = OwnerAddress
             \/ /\ caller.type = "Polkadot"
                /\ caller.address \in AddressesOf(nodeIssuers)
                /\ backend.status \in {"OPEN", "CLOSED"}
       /\ (caller.address \in AddressesOf(selectedIssuers) \ AddressesOf(nodeIssuers)
             => ~lastIssuers.canAddRecord)

\* a Polkadot account that the backend of an OPEN LOC lists as issuer and the
\* ledger does not hold asked, and got false
C36_Witness ==
    /\ AskedCanAddRecord
    /\ backend.status = "OPEN"
    /\ lastIssuers.caller = [address |-> "iss1", type |-> "Polkadot"]
    /\ "iss1" \in AddressesOf(selectedIssuers) \ AddressesOf(nodeIssuers)
    /\ ~lastIssuers.canAddRecord

(* --------------------------- restricted delivery ------------------------- *)
\* addCollectionItem threw before it made any call
ThrewAtOnce == invocation.error = "Error" /\ invocation.calls = <<>>

\* C37: addCollectionItem whose other parameters pass their checks is refused
\* with restrictedDelivery = true unless a token and at least one file are
\* given, and is not refused when restrictedDelivery is left out or false,
\* whether a token or a file is given or not
C37_RestrictedDelivery ==
    (invocation.op = "addCollectionItem" /\ invocation.parameters.valid) =>
       LET p == invocation.parameters IN
       /\ (p.restrictedDelivery = "true" =>
             (ThrewAtOnce <=> ~(p.itemToken /\ (p.files > 0 \/ p.hashFiles))))
       /\ (p.restrictedDelivery \in {"undefined", "false"} => ~ThrewAtOnce)

\* restricted delivery asked for an item with a token and without file: refused
C37_Witness ==
    /\ invocation.op = "addCollectionItem" /\ invocation.parameters.valid
    /\ invocation.parameters.restrictedDelivery = "true"
    /\ invocation.parameters.itemToken
    /\ invocation.parameters.files = 0 /\ ~invocation.parameters.hashFiles
    /\ ThrewAtOnce

(* ------------------- the size of an ItemFileWithContent ----------------- *)
\* C38: reading the size of a file that was constructed and finalized without
\* error does not throw and returns the size of the content when the file has
\* content, the declared size otherwise, whatever the length of the content
C38_SizeAfterFinalize ==
    (itemFile.op = "size" /\ itemFile.state = "finalized") =>
       /\ ~itemFile.threw
       /\ itemFile.read = IF itemFile.hasContent THEN SizeOf(itemFile.contentSize)
                          ELSE itemFile.given

\* C38 for files whose content is not empty
SizeAfterFinalizeOfContent ==
    (itemFile.op = "size" /\ itemFile.state = "finalized"
       /\ (itemFile.hasContent => itemFile.contentSize > 0)) =>
       /\ ~itemFile.threw
       /\ itemFile.read = IF itemFile.hasContent THEN SizeOf(itemFile.contentSize)
                          ELSE itemFile.given

(* -------------------- the error of an invalid token --------------------- *)
\* validateToken reported the token as invalid to validTokenOrThrow
ReportedInvalid ==
    token.op = "validTokenOrThrow" /\ ~token.valid /\ token.error # "TypeError"

\* C39: when validateToken reports a token as invalid, the error thrown has
\* the generic message whenever validateToken supplied an error string and
\* the message with the reason only when it supplied none; validateToken
\* supplies an error string for every invalid token, so that the reason is
\* never in the message
C39_GenericInvalidTokenError ==
    ReportedInvalid =>
       /\ token.threw
       /\ token.error \notin {"none", ""}
       /\ token.message = <<"Given token definition is invalid">>

C39_Witness ==
    /\ ReportedInvalid
    /\ token.error = "token ID is missing the 'contract' field"
    /\ token.message = <<"Given token definition is invalid">>

====
